---------------------------- MODULE Spec2Model ----------------------------
(***************************************************************************)
(* Persistent index layer and job queue of the AI-3 DataFactory v1         *)
(* service (src/app_v1.py, src/index_manager.py, src/job_queue.py,         *)
(* src/models.py).                                                         *)
(*                                                                         *)
(* The relational store is modelled with the isolation every supported     *)
(* DATABASE_URL gives (SQLite, or the MySQL/InnoDB of test_persistence.py):*)
(* a session's flushed but uncommitted writes are invisible to every other *)
(* session, a commit applies the changed columns of the session's rows,    *)
(* and a row written by an open transaction is locked until that           *)
(* transaction commits or rolls back.  The variables docs, chunks, indices *)
(* and jobs hold the COMMITTED rows; the pending writes of an open session *)
(* live in the local state of the request or worker that owns it.          *)
(*                                                                         *)
(* A text is a sequence of paragraphs, a paragraph is its length in        *)
(* characters after strip() (0 = a blank paragraph).  A vector of a FAISS  *)
(* index is named by the chunk_id whose text was embedded to produce it.   *)
(***************************************************************************)
EXTENDS Integers, Sequences, FiniteSets, TLC

\* ------------------------------------------------------------------ bounds
MaxUpserts == 2      \* upsert requests accepted in one behaviour
MaxDeletes == 1      \* delete requests
MaxSearches == 1     \* search requests
MaxRebuilds == 1     \* POST /v1/index/rebuild requests
MaxCrashes == 1      \* processes killed
MaxAnJobs == 2       \* async analysis jobs created
MaxBatches == 3      \* page batches of one analysed document
MaxGpus == 2         \* free GPUs that the parallel analysis finds
MaxIngestDocs == 2   \* documents in the payload of one ingest_docs job
MaxGpuCalls == 3
MaxTexts == 4          \* texts of one ParallelEmbedder.embed call
MaxEmbedGpus == 3      \* GPUs that _get_available_gpus can return
MaxEmbedCalls == 2     \* calls of ParallelEmbedder.embed
MaxTimeout == 2        \* timeout_sec of a GPUExclusiveLock, in poll intervals
MaxLockCalls == 3      \* calls of GPUExclusiveLock.acquire
MaxReports == 3        \* calls of report_status     \* calls of GPUManager.acquire

\* --------------------------------------------------------------- universe
Clients == {"c1", "c2"}          \* concurrent HTTP request threads
Workers == {"w1", "w2"}          \* job worker processes sharing the database
Procs == Clients \cup Workers
DocOrder == <<"d1", "d2">>          \* the doc_ids, in collation order
DocIds == {DocOrder[i] : i \in 1 .. Len(DocOrder)}
DocRank(d) == CHOOSE i \in 1 .. Len(DocOrder) : DocOrder[i] = d
\* names are sequences of characters; a name without "/", "\" and "_" counts
\* as one character
Tenants == { <<"t1">>, <<"t1", "/", "x">> }
Namespaces == { <<"n1">>, <<"x", "_", "n1">> }
Versions == {"v1", "v2"}
EMBEDDING_VERSION == "v1"
Spaces == Tenants \X Namespaces
OneSpace == { <<(<<"t1">>), (<<"n1">>)>> }
NoSpace == <<(<<>>), (<<>>)>>
Keys == Tenants \X Namespaces \X Versions
NULL == -1
None == "None"

MaxChars == 800
Texts == { <<0>>, <<300>>, <<300, 0>>, <<500, 500>> }
MaxOrd == 3
ChunkIds == DocIds \X (0 .. (MaxOrd - 1))

\* ---------------------------------------------------------------- helpers
Min(a, b) == IF a <= b THEN a ELSE b

RECURSIVE SeqSum(_)
SeqSum(s) == IF s = <<>> THEN 0 ELSE Head(s) + SeqSum(Tail(s))

IsBlank(p) == p = 0

\* Whitespace collapse: blank paragraphs vanish from the normalized text.
normalize_text_for_hash(text) == SelectSeq(text, LAMBDA p : ~IsBlank(p))

\* SHA-256 is taken to be injective on the normalized text.
compute_doc_hash(text) == normalize_text_for_hash(text)

\* len() of a buffer of paragraphs joined by "\n\n"
BufLen(buf) == IF buf = <<>> THEN 0 ELSE SeqSum(buf) + 2 * (Len(buf) - 1)

RECURSIVE ChunkLoop(_, _, _)
ChunkLoop(paras, out, buf) ==
    IF paras = <<>>
    THEN IF buf # <<>> THEN Append(out, buf) ELSE out
    ELSE LET p == Head(paras) IN
         IF BufLen(buf) + p + 2 <= MaxChars
         THEN ChunkLoop(Tail(paras), out, Append(buf, p))
         ELSE IF buf # <<>>
              THEN ChunkLoop(Tail(paras), Append(out, buf), <<p>>)
              ELSE ChunkLoop(Tail(paras), out, <<p>>)

\* chunk_default with overlap = 0: a chunk is the sequence of its paragraphs
chunk_default(text) == ChunkLoop(SelectSeq(text, LAMBDA p : ~IsBlank(p)), <<>>, <<>>)

\* strategy None and a namespace outside type_to_strategy: the default strategy
chunk_text_with_strategy(text) == chunk_default(text)

\* _get_index_path, lines 49-51: "/" and "\" become "_"
Sanitize(s) == [i \in 1 .. Len(s) |-> IF s[i] \in {"/", "\\"} THEN "_" ELSE s[i]]

\* _get_index_path, lines 53-54: f"{safe_tenant}_{safe_namespace}_{safe_version}.faiss"
get_index_path(key) ==
    Sanitize(key[1]) \o <<"_">> \o Sanitize(key[2]) \o <<"_">>
        \o Sanitize(<<key[3]>>) \o <<".faiss">>

Paths == { get_index_path(k) : k \in Keys }

\* the sibling temp file save_index writes before the rename (mkstemp in index_dir)
TempPath(path) == <<"tmp">> \o path

TempPaths == { TempPath(p) : p \in Paths }

\* the i-th chunk_id of a document: f"{doc_id}#c{i:04d}"
ChunkIdOf(d, i) == <<d, i>>

\* ------------------------------------------------------------------- rows
\* docs.raw is history, not a column: the text of the last committed upsert
NoDoc == [present |-> FALSE, space |-> NoSpace, hash |-> <<>>,
          version |-> None, deleted |-> FALSE, raw |-> <<>>]
NoChunk == [present |-> FALSE, space |-> NoSpace, version |-> None,
            faiss_id |-> NULL, deleted |-> FALSE, text |-> <<>>]
NoIndex == [present |-> FALSE, path |-> <<None, None, None>>, ntotal |-> 0,
            dirty |-> FALSE]
\* whole = FALSE: a file that holds only part of what write_index was to write
NoFile == [present |-> FALSE, vecs |-> <<>>, whole |-> TRUE]

VARIABLES
    docs,       \* table docs:    doc_id -> committed row
    chunks,     \* table chunks:  chunk_id -> committed row
    indices,    \* table indices: (tenant, namespace, version) -> committed row
    files,      \* INDEX_DIR:     path -> persisted FAISS index
    jobs,       \* table jobs, in created_at order
    ups,        \* upsert_document_sync activations, one per caller
    cl,         \* HTTP request threads
    wk,         \* worker processes
    env,        \* the environment: who is running, the requests it may still send
    deleted_returned,  \* history: docs whose DELETE returned 200, no upsert begun since
    an,         \* the document analyzer service: its job store and background tasks
    lib         \* the helper modules of a process, each with its callers

vars == <<docs, chunks, indices, files, jobs, ups, cl, wk, env, deleted_returned, an, lib>>

\* what the retrieval service never touches
Aside == <<an, lib>>

\* ------------------------------------------------------- local-state shapes
UpNone == [pc |-> "none", doc |-> None, space |-> NoSpace, text |-> <<>>,
           isnew |-> FALSE, undelete |-> FALSE, was_update |-> FALSE,
           oldchunks |-> {}, nchunks |-> 0, flushed |-> FALSE, inserted |-> FALSE,
           index |-> <<>>, path |-> <<None, None, None>>,
           result |-> [error |-> "none", skipped |-> FALSE, chunks_created |-> 0],
           before |-> <<>>]    \* history: the store when the call began

ClIdle == [op |-> "idle", pc |-> "idle", doc |-> None, space |-> NoSpace,
           version |-> None, top_k |-> 0, delset |-> {}, index |-> <<>>,
           cand |-> <<>>, results |-> <<>>,
           resp |-> [status |-> 0],
           req_space |-> NoSpace,  \* tenant_id and namespace of a DELETE request
           before |-> <<>>]    \* history: the store when the request began

WkIdle == [pc |-> "poll", job |-> 0, chunklist |-> <<>>, target |-> None,
           i |-> 0,            \* handle_ingest_docs: documents of the payload done
           path |-> <<None, None, None>>,
           before |-> <<>>]    \* history: the store when the handler read the chunks

\* the analyzer's job ids, in creation order (str(uuid.uuid4())[:8], taken as fresh)
AnJobIds == 1 .. MaxAnJobs

\* no DocumentAnalysis
NoAnalysis == [parallel |-> FALSE, batches_processed |-> 0, batches_failed |-> 0,
               errors |-> {}, made |-> FALSE]

\* no entry in _jobs
AnNoJob == [present |-> FALSE, status |-> None, progress_pct |-> 0,
            result |-> NoAnalysis, error |-> FALSE]

\* a background task that has not been scheduled
AnIdle == [pc |-> "none", parallel |-> FALSE, nbatches |-> 0, done |-> {},
           failed |-> {}, analysis |-> NoAnalysis,
           full_cleanup |-> FALSE,   \* history: gpu_manager.full_cleanup was called
           cancelled_in |-> None,    \* history: where the task was when cancel_job ran
           free_gpus |-> 0,          \* len(free_gpus) of the parallel analysis
           max_workers |-> 0,        \* size of the thread pool of the parallel analysis
           inside |-> {}]            \* batches inside their gpu_exclusive_lock block

AnInit == [jobs |-> [j \in AnJobIds |-> AnNoJob],
           th |-> [j \in AnJobIds |-> AnIdle],
           created |-> 0]

\* the callers of the GPU manager and the task types (TaskType, two of each kind)
GpuCallers == {"g1", "g2"}
TaskTypes == {"pytorch_embedding", "ollama_analysis"}

\* a caller of the GPU manager: outside, or between acquire and release
GmOut == [pc |-> "out", task_type |-> None,
          cleanup_failed |-> FALSE]   \* history: a cleanup of its acquire failed

\* GPUManager.__init__, lines 91-103
\* self._current_task = None: no task recorded
NoTask == [task_type |-> None, doc_id |-> None]
GmInit == [_current_task |-> NoTask, _last_task_type |-> None,
           th |-> [g \in GpuCallers |-> GmOut],
           calls |-> 0]

\* ParallelEmbedder.embed: one call at a time is followed
PeIdle == [pc |-> "idle",
           texts |-> <<>>,
           batches |-> <<>>,        \* the slices of _distribute_texts
           futures |-> {},          \* batches submitted and not yet completed
           results |-> <<>>,        \* batch index -> rows, NoRows until it succeeds
           completed |-> <<>>,      \* history: the order of as_completed
           out |-> <<>>,            \* the rows returned
           calls |-> 0]

\* NU_gpu_phase_lock.py: the processes that use the lock file, and the module
\* state; owner is the process that holds the flock on the lock file
LockCallers == {"p1", "p2"}
PlOut == [pc |-> "out", timeout_sec |-> 0,
          elapsed |-> 0]            \* time.time() - start, in poll intervals
PlInit == [imported |-> FALSE, FCNTL_AVAILABLE |-> FALSE,
           owner |-> None,
           th |-> [p \in LockCallers |-> PlOut],
           calls |-> 0]

\* chunking_strategies/registry.py: ChunkStrategyRegistry.__init__, lines 16-17;
\* strategies is the dict in its insertion order, call the last chunk_text call
RgNoCall == [made |-> FALSE, text |-> "", strategy_name |-> None,
             strategies |-> <<>>,   \* the registry when the call was made
             scores |-> <<>>, behaviour |-> <<>>,
             selected |-> None, raised |-> FALSE, by |-> None, chunks |-> 0]
RgInit == [strategies |-> <<>>, call |-> RgNoCall]

\* status_reporter.py: the callers of report_status and the module state;
\* pending counts the deliveries handed to a task or a thread and not yet done
ReportCallers == {"c1", "c2"}
SrOut == [pc |-> "out", value |-> FALSE, raised |-> FALSE,
          undelivered |-> FALSE]    \* history: it returned with its delivery pending
SrInit == [imported |-> FALSE, WEBHOOK_ENABLED |-> FALSE,
           WEBHOOK_FIRE_AND_FORGET |-> FALSE,
           th |-> [c \in ReportCallers |-> SrOut],
           pending |-> 0,
           last_delivery |-> None,  \* history: how the last background delivery ended
           calls |-> 0]

\* worker.py, lines 30-31: the module global shutdown_requested of every
\* worker process
SgInit == [shutdown_requested |-> [w \in Workers |-> FALSE]]

LibInit == [gm |-> GmInit, pe |-> PeIdle, pl |-> PlInit, rg |-> RgInit, sr |-> SrInit,
            sg |-> SgInit]

\* --------------------------------------------------------------- row locks
\* A row written by an open (flushed, uncommitted) upsert session is locked.
DocLockedByOther(d, p) ==
    \E q \in Procs \ {p} : ups[q].flushed /\ ups[q].doc = d

ChunkLockedByOther(cid, p) ==
    \E q \in Procs \ {p} :
        /\ ups[q].flushed
        /\ \/ cid \in ups[q].oldchunks
           \/ ups[q].inserted /\ cid[1] = ups[q].doc /\ cid[2] < ups[q].nchunks

\* ----------------------------------------------------------- IndexManager
\* mark_dirty left out
mark_dirty_skipped(ix, key) == ix

\* mark_dirty: its own session, committed at once; a no-op without a row
mark_dirty(ix, key) ==
    IF key \in Keys /\ ix[key].present
    THEN [ix EXCEPT ![key].dirty = TRUE]
    ELSE ix

\* load_index: the index read from disk, or a new empty one
load_index_index(key) ==
    IF indices[key].present /\ files[indices[key].path].present
    THEN files[indices[key].path].vecs
    ELSE <<>>

\* load_index: the indices table after the call (its own session)
load_index_meta(key) ==
    IF indices[key].present /\ files[indices[key].path].present
    THEN indices
    ELSE [indices EXCEPT ![key] = [present |-> TRUE, path |-> get_index_path(key),
                                   ntotal |-> 0, dirty |-> FALSE]]

\* save_index, second half: re-fetch the row by key and update it
save_index_meta(ix, key, ntotal) ==
    IF ix[key].present
    THEN [ix EXCEPT ![key].ntotal = ntotal, ![key].dirty = FALSE]
    ELSE ix

\* save_index, first half: os.replace(temp_path, faiss_path)
save_index_file(fs, path, index) ==
    [fs EXCEPT ![path] = [present |-> TRUE, vecs |-> index, whole |-> TRUE]]

\* save_index with atomic = False, cut off after k vectors: faiss.write_index
\* writes straight into faiss_path
save_index_interrupted_direct(fs, path, index, k) ==
    [fs EXCEPT ![path] = [present |-> TRUE, vecs |-> SubSeq(index, 1, k),
                          whole |-> k = Len(index)]]

\* save_index with atomic = True, cut off before os.replace, after k vectors
\* went into the temp file: the temp file stays behind
save_index_interrupted(fs, path, index, k) ==
    [fs EXCEPT ![TempPath(path)] = [present |-> TRUE, vecs |-> SubSeq(index, 1, k),
                                    whole |-> k = Len(index)]]

\* everything persistent: the four tables and the index directory
Store == <<docs, chunks, indices, files, jobs>>

\* ----------------------------------------------------------- environment
\* env.serial: the callers send one request at a time and only while no job is
\* running, and the worker polls only between requests
MayStartRequest ==
    env.serial =>
        /\ \A c \in Clients : cl[c].pc = "idle"
        /\ \A p \in Procs : ups[p].pc = "none"
        /\ \A w \in Workers : wk[w].pc = "poll"

MayStartJob ==
    env.serial =>
        /\ \A c \in Clients : cl[c].pc = "idle"
        /\ \A p \in Procs : ups[p].pc = "none"

\* ------------------------------------------------------------------- Init
InitWith(e) ==
    /\ docs = [d \in DocIds |-> NoDoc]
    /\ chunks = [c \in ChunkIds |-> NoChunk]
    /\ indices = [k \in Keys |-> NoIndex]
    /\ files = [p \in Paths \cup TempPaths |-> NoFile]
    /\ jobs = <<>>
    /\ ups = [p \in Procs |-> UpNone]
    /\ cl = [c \in Clients |-> ClIdle]
    /\ wk = [w \in Workers |-> WkIdle]
    /\ env = e
    /\ deleted_returned = {}
    /\ an = AnInit
    /\ lib = LibInit

Init ==
    InitWith([may |-> [c \in Clients |-> IF c = "c1" THEN {"upsert"}
                                         ELSE {"delete", "rebuild", "search"}],
              workers |-> {"w1"}, docs |-> {"d1"}, track |-> FALSE, serial |-> FALSE, spaces |-> OneSpace,
              texts |-> {<<0>>, <<300>>}, upsert |-> MaxUpserts, delete |-> MaxDeletes,
              search |-> MaxSearches, rebuild |-> MaxRebuilds, crash |-> 0])

\* --------------------------------------------------- upsert_document_sync
\* the lookup with the index marked dirty before the hashes are compared
Upsert_read_dirty_first(p) ==
    /\ ups[p].pc = "read"
    /\ LET u == ups[p]
           existing == docs[u.doc]
           doc_hash == compute_doc_hash(u.text)
       IN  IF existing.present
           THEN /\ indices' = IF existing.deleted THEN indices
                              ELSE mark_dirty(indices,
                                      <<u.space[1], u.space[2], existing.version>>)
                /\ ups' = IF existing.hash = doc_hash /\ ~existing.deleted
                          THEN [ups EXCEPT ![p].pc = "ret",
                                   ![p].result = [error |-> "none", skipped |-> TRUE,
                                                  chunks_created |-> 0]]
                          ELSE [ups EXCEPT
                                   ![p].pc = "flush",
                                   ![p].was_update = TRUE,
                                   ![p].undelete = existing.deleted,
                                   ![p].oldchunks =
                                       IF existing.deleted THEN {}
                                       ELSE {c \in ChunkIds :
                                                c[1] = u.doc /\ chunks[c].present}]
           ELSE /\ ups' = [ups EXCEPT ![p].pc = "flush", ![p].isnew = TRUE]
                /\ UNCHANGED indices
    /\ UNCHANGED <<Aside, docs, chunks, files, jobs, cl, wk, env, deleted_returned>>

\* lines 147-199: hash, lookup, skip or stage the document write
Upsert_read(p) ==
    /\ ups[p].pc = "read"
    /\ LET u == ups[p]
           existing == docs[u.doc]
           doc_hash == compute_doc_hash(u.text)
       IN  IF existing.present /\ existing.hash = doc_hash /\ ~existing.deleted
           THEN /\ ups' = [ups EXCEPT ![p].pc = "ret",
                               ![p].result = [error |-> "none", skipped |-> TRUE,
                                              chunks_created |-> 0]]
                /\ UNCHANGED indices
           ELSE IF existing.present
           THEN /\ ups' = [ups EXCEPT
                      ![p].pc = "flush",
                      ![p].was_update = TRUE,
                      ![p].undelete = existing.deleted,
                      ![p].oldchunks =
                          IF existing.deleted THEN {}
                          ELSE {c \in ChunkIds : c[1] = u.doc /\ chunks[c].present}]
                /\ indices' = IF existing.deleted THEN indices
                              ELSE mark_dirty(indices,
                                      <<u.space[1], u.space[2], existing.version>>)
           ELSE /\ ups' = [ups EXCEPT ![p].pc = "flush", ![p].isnew = TRUE]
                /\ UNCHANGED indices
    /\ UNCHANGED <<Aside, docs, chunks, files, jobs, cl, wk, env, deleted_returned>>

\* the document row a commit of session p leaves behind
CommittedDoc(u) ==
    [present |-> TRUE, space |-> u.space, hash |-> compute_doc_hash(u.text),
     version |-> EMBEDDING_VERSION,
     deleted |-> IF u.isnew \/ u.undelete THEN FALSE ELSE docs[u.doc].deleted,
     raw |-> u.text]

\* the chunk rows a commit of session p leaves behind
CommittedChunks(u) ==
    [c \in ChunkIds |->
        IF u.inserted /\ c[1] = u.doc /\ c[2] < u.nchunks
        THEN [present |-> TRUE, space |-> u.space, version |-> EMBEDDING_VERSION,
              faiss_id |-> NULL, deleted |-> FALSE,
              text |-> chunk_text_with_strategy(u.text)[c[2] + 1]]
        ELSE IF c \in u.oldchunks
        THEN [chunks[c] EXCEPT !.deleted = TRUE]
        ELSE chunks[c]]

\* lines 284-287, a failed upsert: session.rollback(), the exception is re-raised.
\* error names the exception, at names the step that raised it
UpFailed(u, error) ==
    [UpNone EXCEPT !.pc = "ret", !.doc = u.doc, !.space = u.space, !.text = u.text,
                   !.before = u.before,
                   !.result = [error |-> error, at |-> u.pc, skipped |-> FALSE,
                               chunks_created |-> 0]]

\* lines 201-213: flush the document write, chunk the text; an empty chunk
\* list commits at once
Upsert_flush(p) ==
    /\ ups[p].pc = "flush"
    /\ ~DocLockedByOther(ups[p].doc, p)
    /\ \A c \in ups[p].oldchunks : ~ChunkLockedByOther(c, p)
    /\ LET u == ups[p]
           chunks_text == chunk_text_with_strategy(u.text)
       IN  IF u.isnew /\ docs[u.doc].present
           THEN \* INSERT of a primary key committed meanwhile: IntegrityError
                /\ ups' = [ups EXCEPT ![p] = UpFailed(u, "IntegrityError")]
                /\ UNCHANGED <<Aside, docs, chunks>>
           ELSE IF chunks_text = <<>>
           THEN /\ docs' = [docs EXCEPT ![u.doc] = CommittedDoc(u)]
                /\ chunks' = CommittedChunks(u)
                /\ ups' = [ups EXCEPT ![p].pc = "ret", ![p].oldchunks = {},
                               ![p].result = [error |-> "none", skipped |-> FALSE,
                                              chunks_created |-> 0]]
           ELSE /\ ups' = [ups EXCEPT ![p].pc = "embed", ![p].flushed = TRUE,
                               ![p].nchunks = Len(chunks_text)]
                /\ UNCHANGED <<Aside, docs, chunks>>
    /\ UNCHANGED <<Aside, indices, files, jobs, cl, wk, env, deleted_returned>>

\* lines 216-239: enrichment and embed_texts run with the session still open
\* (pc = "embed" is the request inside those calls), then index_manager.load_index
\* for (tenant, namespace, EMBEDDING_VERSION)
Upsert_embed_load_index(p) ==
    /\ ups[p].pc = "embed"
    /\ LET key == <<ups[p].space[1], ups[p].space[2], EMBEDDING_VERSION>> IN
        /\ indices' = load_index_meta(key)
        /\ ups' = [ups EXCEPT ![p].pc = "insert",
                       ![p].index = load_index_index(key),
                       ![p].path = indices'[key].path]
    /\ UNCHANGED <<Aside, docs, chunks, files, jobs, cl, wk, env, deleted_returned>>

\* add_vectors, the rows its own session finds by chunk_id get their faiss_id:
\* a row is found only if it is committed
add_vectors_rows(u) ==
    [c \in ChunkIds |->
        IF c[1] = u.doc /\ c[2] < u.nchunks /\ chunks[c].present
        THEN [chunks[c] EXCEPT !.faiss_id = Len(u.index) + c[2]]
        ELSE chunks[c]]

\* add_vectors, the in-memory index after index.add(vectors)
add_vectors_index(u) ==
    u.index \o [i \in 1 .. u.nchunks |-> ChunkIdOf(u.doc, i - 1)]

\* lines 242-266: the chunk rows are added and flushed (chunk_id is the primary
\* key, so a chunk_id that an earlier upsert stored cannot be inserted), then
\* index_manager.add_vectors runs in a session of its own
Upsert_insert_chunks(p) ==
    /\ ups[p].pc = "insert"
    /\ LET u == ups[p]
           chunk_ids == {ChunkIdOf(u.doc, i) : i \in 0 .. (u.nchunks - 1)}
       IN  IF \E c \in chunk_ids : chunks[c].present
           THEN /\ ups' = [ups EXCEPT ![p] = UpFailed(u, "IntegrityError")]
                /\ UNCHANGED chunks
           ELSE /\ ups' = [ups EXCEPT ![p].pc = "save", ![p].inserted = TRUE,
                                      ![p].index = add_vectors_index(u)]
                /\ chunks' = add_vectors_rows(u)
    /\ UNCHANGED <<Aside, docs, indices, files, jobs, cl, wk, env, deleted_returned>>

\* line 269, save_index lines 155-174: the index file is replaced
Upsert_save_file(p) ==
    /\ ups[p].pc = "save"
    /\ files' = save_index_file(files, ups[p].path, ups[p].index)
    /\ ups' = [ups EXCEPT ![p].pc = "meta"]
    /\ UNCHANGED <<Aside, docs, chunks, indices, jobs, cl, wk, env, deleted_returned>>

\* line 269, save_index lines 190-205: ntotal is stored and dirty is cleared
Upsert_save_meta(p) ==
    /\ ups[p].pc = "meta"
    /\ indices' = save_index_meta(indices,
                      <<ups[p].space[1], ups[p].space[2], EMBEDDING_VERSION>>,
                      Len(ups[p].index))
    /\ ups' = [ups EXCEPT ![p].pc = "commit"]
    /\ UNCHANGED <<Aside, docs, chunks, files, jobs, cl, wk, env, deleted_returned>>

\* line 271: session.commit()
Upsert_commit(p) ==
    /\ ups[p].pc = "commit"
    /\ docs' = [docs EXCEPT ![ups[p].doc] = CommittedDoc(ups[p])]
    /\ chunks' = CommittedChunks(ups[p])
    /\ ups' = [ups EXCEPT ![p].pc = "ret", ![p].flushed = FALSE,
                   ![p].oldchunks = {}, ![p].index = <<>>,
                   ![p].result = [error |-> "none", skipped |-> FALSE,
                                  chunks_created |-> ups[p].nchunks]]
    /\ UNCHANGED <<Aside, indices, files, jobs, cl, wk, env, deleted_returned>>

\* lines 284-287: any step between the lookup and the commit may raise (a
\* database error, a lock timeout, the embedder or the enricher failing)
Upsert_fail(p) ==
    /\ ups[p].pc \in {"flush", "embed", "insert", "save", "meta", "commit"}
    /\ ups' = [ups EXCEPT ![p] = UpFailed(ups[p], "Raised")]
    /\ UNCHANGED <<Aside, docs, chunks, indices, files, jobs, cl, wk, env, deleted_returned>>

\* ------------------------------------------------- POST /v1/docs/upsert
v1_docs_upsert_single(c) ==
    /\ "upsert" \in env.may[c]
    /\ cl[c].pc = "idle"
    /\ MayStartRequest
    /\ env.upsert > 0
    /\ \E d \in env.docs, s \in env.spaces, t \in env.texts :
        /\ ups' = [ups EXCEPT ![c] = [UpNone EXCEPT !.pc = "read", !.doc = d,
                            !.space = s, !.text = t,
                            !.before = IF env.track THEN Store ELSE <<>>]]
        /\ cl' = [cl EXCEPT ![c] = [ClIdle EXCEPT !.op = "upsert", !.pc = "call",
                                                  !.doc = d, !.space = s]]
        /\ deleted_returned' = deleted_returned \ {d}
    /\ env' = [env EXCEPT !.upsert = @ - 1]
    /\ UNCHANGED <<Aside, docs, chunks, indices, files, jobs, wk>>

UpsertResponse(r) ==
    IF r.error = "none"
    THEN [status |-> 200, accepted |-> 1,
          upserted_docs |-> IF r.skipped THEN 0 ELSE 1,
          skipped_docs |-> IF r.skipped THEN 1 ELSE 0,
          chunks_created |-> r.chunks_created]
    ELSE [status |-> 500]

v1_docs_upsert_single_return(c) ==
    /\ cl[c].pc = "call"
    /\ cl[c].op = "upsert"
    /\ ups[c].pc = "ret"
    /\ cl' = [cl EXCEPT ![c] = [ClIdle EXCEPT !.resp = UpsertResponse(ups[c].result)]]
    /\ ups' = [ups EXCEPT ![c] = UpNone]
    /\ UNCHANGED <<Aside, docs, chunks, indices, files, jobs, wk, env, deleted_returned>>

\* --------------------------------------------------------------- JobQueue
NewJob(type, key, reembed, newver) ==
    [type |-> type, key |-> key, reembed |-> reembed, newver |-> newver,
     status |-> "pending", progress |-> 0, started |-> FALSE, error |-> FALSE,
     docs |-> <<>>,   \* payload['docs'] of an ingest_docs job
     runs |-> 0,      \* runs: history, the number of times a handler was started
     failed_docs |-> {}]  \* history: the payload positions whose upsert raised

\* create_job: one INSERT, committed at once
create_job(js, type, key, reembed, newver) ==
    Append(js, NewJob(type, key, reembed, newver))

\* update_job_status: the row is fetched by job_id and overwritten
update_job_status(js, job_id, status, progress, error) ==
    [js EXCEPT ![job_id] =
        [@ EXCEPT !.status = status,
                  !.progress = IF status = "completed" THEN 100
                               ELSE IF progress = NULL THEN @
                               ELSE IF progress < 0 THEN 0
                               ELSE Min(100, progress),
                  !.error = IF error THEN TRUE ELSE @,
                  !.started = IF status = "running" THEN TRUE ELSE @]]

PendingJobs == {i \in 1 .. Len(jobs) : jobs[i].status = "pending"}

\* get_next_pending_job, lines 165-170: the oldest pending row is selected
get_next_pending_job_select(w) ==
    /\ w \in env.workers
    /\ wk[w].pc = "poll"
    /\ MayStartJob
    /\ PendingJobs # {}
    /\ LET job == CHOOSE i \in PendingJobs : \A j \in PendingJobs : i <= j IN
        wk' = [wk EXCEPT ![w].pc = "claim", ![w].job = job]
    /\ UNCHANGED <<Aside, docs, chunks, indices, files, jobs, ups, cl, env, deleted_returned>>

\* get_next_pending_job, lines 173-182: the selected row is set to running
get_next_pending_job_mark(w) ==
    /\ wk[w].pc = "claim"
    /\ jobs' = [jobs EXCEPT ![wk[w].job].status = "running",
                            ![wk[w].job].started = TRUE]
    /\ wk' = [wk EXCEPT ![w].pc = "process"]
    /\ UNCHANGED <<Aside, docs, chunks, indices, files, ups, cl, env, deleted_returned>>

\* ----------------------------------------------------- handle_rebuild_index
\* the live chunks of a key in primary-key order
\* primary-key order of the chunk_ids
ChunkBefore(x, y) ==
    \/ DocRank(x[1]) < DocRank(y[1])
    \/ x[1] = y[1] /\ x[2] <= y[2]

RECURSIVE SetToSeq(_)
SetToSeq(S) ==
    IF S = {} THEN <<>>
    ELSE LET m == CHOOSE x \in S : \A y \in S : ChunkBefore(x, y)
         IN <<m>> \o SetToSeq(S \ {m})

LiveChunks(key) ==
    {c \in ChunkIds : /\ chunks[c].present
                      /\ chunks[c].space = <<key[1], key[2]>>
                      /\ chunks[c].version = key[3]
                      /\ ~chunks[c].deleted}

\* process_job calls the handler; lines 320-344: progress 10, the live chunks
\* of the key are read, progress 20
handle_rebuild_index_read(w) ==
    /\ wk[w].pc = "process"
    /\ jobs[wk[w].job].type = "rebuild_index"
    /\ LET job == jobs[wk[w].job]
           found == SetToSeq(LiveChunks(job.key))
       IN  wk' = [wk EXCEPT ![w].pc = IF found = <<>> THEN "rb_empty" ELSE "rb_embed",
                            ![w].before = IF env.track THEN Store ELSE <<>>,
                            ![w].chunklist = found,
                            ![w].target = job.key[3]]
    /\ jobs' = [update_job_status(jobs, wk[w].job, "running", 20, FALSE)
                   EXCEPT ![wk[w].job].runs = @ + 1]
    /\ UNCHANGED <<Aside, docs, chunks, indices, files, ups, cl, env, deleted_returned>>

\* lines 346-351, index_manager.rebuild_index lines 288-311: no live chunk, the
\* metadata row is created or reset and committed
handle_rebuild_index_empty(w) ==
    /\ wk[w].pc = "rb_empty"
    /\ LET key == jobs[wk[w].job].key IN
        /\ indices' = [indices EXCEPT ![key] =
                          [present |-> TRUE,
                           path |-> IF indices[key].present THEN indices[key].path
                                    ELSE get_index_path(key),
                           ntotal |-> 0, dirty |-> FALSE]]
        /\ wk' = [wk EXCEPT ![w].pc = "rb_save", ![w].path = indices'[key].path]
    /\ UNCHANGED <<Aside, docs, chunks, files, jobs, ups, cl, env, deleted_returned>>

\* lines 354-372: the version the rebuilt chunks end in
TargetVersion(job) ==
    IF job.reembed
    THEN IF job.newver # None THEN job.newver ELSE EMBEDDING_VERSION
    ELSE job.key[3]

\* the ordinal counted from 1
Position_from_one(seq, x) == 1 + CHOOSE i \in 1 .. Len(seq) : seq[i] = x

Position(seq, x) == CHOOSE i \in 1 .. Len(seq) : seq[i] = x

InSeq(seq, x) == \E i \in 1 .. Len(seq) : seq[i] = x

\* lines 354-409: the texts are embedded again (pc = "rb_embed" is the worker
\* inside embed_texts), progress 60; the metadata row of the target key is fetched
\* or created, each chunk read at the start gets its ordinal as faiss_id (and the
\* target version on a re-embed), all of it committed together; progress 80
handle_rebuild_index_commit(w) ==
    /\ wk[w].pc = "rb_embed"
    /\ \A i \in 1 .. Len(wk[w].chunklist) : ~ChunkLockedByOther(wk[w].chunklist[i], w)
    /\ LET job == jobs[wk[w].job]
           tv == TargetVersion(job)
           target == <<job.key[1], job.key[2], tv>>
       IN
        /\ indices' = IF indices[target].present THEN indices
                      ELSE [indices EXCEPT ![target] =
                               [present |-> TRUE, path |-> get_index_path(target),
                                ntotal |-> 0, dirty |-> FALSE]]
        /\ chunks' = [c \in ChunkIds |->
                        IF InSeq(wk[w].chunklist, c)
                        THEN [chunks[c] EXCEPT
                                 !.faiss_id = Position(wk[w].chunklist, c) - 1,
                                 !.version = IF job.reembed THEN tv ELSE @]
                        ELSE chunks[c]]
        /\ wk' = [wk EXCEPT ![w].pc = "rb_save", ![w].path = indices'[target].path,
                            ![w].target = tv]
    /\ jobs' = update_job_status(jobs, wk[w].job, "running", 80, FALSE)
    /\ UNCHANGED <<Aside, docs, files, ups, cl, env, deleted_returned>>

\* line 412 (or rebuild_index line 314), save_index lines 155-174
handle_rebuild_index_save_file(w) ==
    /\ wk[w].pc = "rb_save"
    /\ files' = save_index_file(files, wk[w].path, wk[w].chunklist)
    /\ wk' = [wk EXCEPT ![w].pc = "rb_meta"]
    /\ UNCHANGED <<Aside, docs, chunks, indices, jobs, ups, cl, env, deleted_returned>>

\* save_index lines 190-205
handle_rebuild_index_save_meta(w) ==
    /\ wk[w].pc = "rb_meta"
    /\ LET job == jobs[wk[w].job] IN
        indices' = save_index_meta(indices, <<job.key[1], job.key[2], wk[w].target>>,
                                   Len(wk[w].chunklist))
    /\ wk' = [wk EXCEPT ![w].pc = "finish"]
    /\ UNCHANGED <<Aside, docs, chunks, files, jobs, ups, cl, env, deleted_returned>>

\* process_job lines 262-264: the handler returned
process_job_completed(w) ==
    /\ wk[w].pc = "finish"
    /\ jobs' = update_job_status(jobs, wk[w].job, "completed", 100, FALSE)
    /\ wk' = [wk EXCEPT ![w] = WkIdle]
    /\ UNCHANGED <<Aside, docs, chunks, indices, files, ups, cl, env, deleted_returned>>

\* process_job lines 266-269: the handler raised (embed_texts, a database error)
process_job_failed(w) ==
    /\ wk[w].pc \in {"rb_empty", "rb_embed", "rb_save", "rb_meta"}
    /\ jobs' = update_job_status(jobs, wk[w].job, "failed", NULL, TRUE)
    /\ wk' = [wk EXCEPT ![w] = WkIdle]
    /\ UNCHANGED <<Aside, docs, chunks, indices, files, ups, cl, env, deleted_returned>>

\* ----------------------------------------------- DELETE /v1/docs/{doc_id}
\* the 404 test without the deleted_at half
DocumentNotFound_unknown(d) == ~docs[d].present

\* line 509: not doc or doc.deleted_at is not None
DocumentNotFound(d) == ~docs[d].present \/ docs[d].deleted

\* lines 507-519: lookup by doc_id (the tenant_id and namespace of the request
\* are not part of the query), 404, or stage the soft delete of the document
\* and of its live chunks
v1_docs_delete_read(c) ==
    /\ "delete" \in env.may[c]
    /\ cl[c].pc = "idle"
    /\ MayStartRequest
    /\ env.delete > 0
    /\ env' = [env EXCEPT !.delete = @ - 1]
    /\ \E d \in env.docs, s \in env.spaces :
        IF DocumentNotFound(d)
        THEN cl' = [cl EXCEPT ![c] = [ClIdle EXCEPT !.resp = [status |-> 404],
                                                     !.doc = d]]
        ELSE cl' = [cl EXCEPT ![c] = [ClIdle EXCEPT !.op = "delete", !.pc = "del_commit",
                        !.doc = d, !.req_space = s,
                        !.before = IF env.track THEN Store ELSE <<>>,
                        !.delset = {k \in ChunkIds : /\ k[1] = d
                                                     /\ chunks[k].present
                                                     /\ ~chunks[k].deleted}]]
    /\ UNCHANGED <<Aside, docs, chunks, indices, files, jobs, ups, wk, deleted_returned>>

\* line 521: session.commit()
v1_docs_delete_commit(c) ==
    /\ cl[c].pc = "del_commit"
    /\ ~DocLockedByOther(cl[c].doc, c)
    /\ \A k \in cl[c].delset : ~ChunkLockedByOther(k, c)
    /\ docs' = [docs EXCEPT ![cl[c].doc].deleted = TRUE]
    /\ chunks' = [k \in ChunkIds |->
                    IF k \in cl[c].delset THEN [chunks[k] EXCEPT !.deleted = TRUE]
                    ELSE chunks[k]]
    /\ cl' = [cl EXCEPT ![c].pc = "del_dirty"]
    /\ UNCHANGED <<Aside, indices, files, jobs, ups, wk, env, deleted_returned>>

\* line 524: index_manager.mark_dirty with the reloaded attributes of the row
v1_docs_delete_mark_dirty(c) ==
    /\ cl[c].pc = "del_dirty"
    /\ LET doc == docs[cl[c].doc] IN
        /\ indices' = mark_dirty(indices, <<doc.space[1], doc.space[2], doc.version>>)
        /\ cl' = [cl EXCEPT ![c].pc = "del_job", ![c].space = doc.space,
                            ![c].version = doc.version]
    /\ UNCHANGED <<Aside, docs, chunks, files, jobs, ups, wk, env, deleted_returned>>

\* lines 527-544: the rebuild job is created and the response returned
v1_docs_delete_create_job(c) ==
    /\ cl[c].pc = "del_job"
    /\ jobs' = create_job(jobs, "rebuild_index",
                          <<cl[c].space[1], cl[c].space[2], cl[c].version>>, FALSE, None)
    /\ cl' = [cl EXCEPT ![c] = [ClIdle EXCEPT
                        !.resp = [status |-> 200, deleted |-> TRUE,
                                  doc_id |-> cl[c].doc,
                                  chunks_deleted |-> Cardinality(cl[c].delset),
                                  job_id |-> Len(jobs')],
                        !.before = cl[c].before]]
    /\ deleted_returned' = deleted_returned \cup {cl[c].doc}
    /\ UNCHANGED <<Aside, docs, chunks, indices, files, ups, wk, env>>

\* ------------------------------------------------- POST /v1/index/rebuild
v1_index_rebuild(c) ==
    /\ "rebuild" \in env.may[c]
    /\ cl[c].pc = "idle"
    /\ MayStartRequest
    /\ env.rebuild > 0
    /\ env' = [env EXCEPT !.rebuild = @ - 1]
    /\ \E s \in env.spaces, v \in Versions, reembed \in BOOLEAN, nv \in Versions \cup {None} :
        /\ (~reembed => nv = None)
        /\ jobs' = create_job(jobs, "rebuild_index", <<s[1], s[2], v>>, reembed, nv)
        /\ cl' = [cl EXCEPT ![c] = [ClIdle EXCEPT
                        !.resp = [status |-> 200, job_id |-> Len(jobs'),
                                  job_status |-> "pending"]]]
    /\ UNCHANGED <<Aside, docs, chunks, indices, files, ups, wk, deleted_returned>>

\* --------------------------------------------------------- POST /v1/search
\* the positions FAISS returns for a query, best first: the query decides the
\* order, here ascending or descending position
Ranking(order, ntotal) ==
    [i \in 1 .. ntotal |-> IF order = "asc" THEN i - 1 ELSE ntotal - i]

\* lines 688-710: load_index, the empty answer, the FAISS search
v1_search_load(c) ==
    /\ "search" \in env.may[c]
    /\ cl[c].pc = "idle"
    /\ MayStartRequest
    /\ env.search > 0
    /\ env' = [env EXCEPT !.search = @ - 1]
    /\ \E s \in env.spaces, v \in Versions, top_k \in {1}, order \in {"asc", "desc"} :
        LET key == <<s[1], s[2], v>>
            index == load_index_index(key)
            search_k == Min(top_k * 3, Len(index))
        IN  /\ indices' = load_index_meta(key)
            /\ IF Len(index) = 0
               THEN cl' = [cl EXCEPT ![c] = [ClIdle EXCEPT
                               !.space = s, !.version = v,
                               !.resp = [status |-> 200, chunks |-> <<>>]]]
               ELSE cl' = [cl EXCEPT ![c] = [ClIdle EXCEPT !.op = "search",
                               !.pc = "lookup", !.space = s, !.version = v,
                               !.top_k = top_k,
                               !.cand = SubSeq(Ranking(order, Len(index)), 1, search_k)]]
    /\ UNCHANGED <<Aside, docs, chunks, files, jobs, ups, wk, deleted_returned>>

\* the lookup without its tenant_id and namespace filters
SearchMatches_any_tenant(space, version, faiss_id) ==
    {k \in ChunkIds : /\ chunks[k].present
                      /\ chunks[k].version = version
                      /\ chunks[k].faiss_id = faiss_id
                      /\ ~chunks[k].deleted}

\* the rows one lookup of lines 721-727 can return
SearchMatches(space, version, faiss_id) ==
    {k \in ChunkIds : /\ chunks[k].present
                      /\ chunks[k].space = space
                      /\ chunks[k].version = version
                      /\ chunks[k].faiss_id = faiss_id
                      /\ ~chunks[k].deleted}

\* what a search records of a hit: the chunk, its deleted_at as the lookup read
\* it, and for the history whether its document's DELETE had returned by then
Hit(k) == [chunk |-> k, deleted |-> chunks[k].deleted,
           space |-> chunks[k].space, version |-> chunks[k].version,
           after_delete |-> k[1] \in deleted_returned]

SearchStep(c, hits) ==
    LET results == cl[c].results \o hits
        rest == Tail(cl[c].cand)
    IN  IF Len(results) >= cl[c].top_k \/ rest = <<>>
        THEN [ClIdle EXCEPT !.resp = [status |-> 200, chunks |-> results]]
        ELSE [cl[c] EXCEPT !.cand = rest, !.results = results]

\* lines 716-739: one candidate of the loop
v1_search_lookup(c) ==
    /\ cl[c].pc = "lookup"
    /\ LET matches == SearchMatches(cl[c].space, cl[c].version, Head(cl[c].cand)) IN
        IF matches = {}
        THEN cl' = [cl EXCEPT ![c] = SearchStep(c, <<>>)]
        ELSE \E k \in matches : cl' = [cl EXCEPT ![c] = SearchStep(c, <<Hit(k)>>)]
    /\ UNCHANGED <<Aside, docs, chunks, indices, files, jobs, ups, wk, env, deleted_returned>>

\* ------------------------------------------------------- process crashes
\* the process that runs upsert p is killed: its open transaction is rolled
\* back by the database; killed inside save_index before the rename, it leaves
\* what it had written of the temp file
Crash_upsert(p) ==
    /\ env.crash > 0
    /\ ups[p].pc \in {"read", "flush", "embed", "insert", "save", "meta", "commit"}
    /\ env' = [env EXCEPT !.crash = @ - 1]
    /\ IF ups[p].pc = "save"
       THEN \E k \in 0 .. Len(ups[p].index) :
               files' = save_index_interrupted(files, ups[p].path, ups[p].index, k)
       ELSE UNCHANGED files
    /\ ups' = [ups EXCEPT ![p] = [UpNone EXCEPT !.pc = "dead", !.doc = ups[p].doc,
                                      !.space = ups[p].space, !.path = ups[p].path]]
    /\ UNCHANGED <<Aside, docs, chunks, indices, jobs, cl, wk, deleted_returned>>

\* the worker process w is killed while it runs a rebuild
Crash_worker(w) ==
    /\ env.crash > 0
    /\ wk[w].pc \in {"process", "rb_empty", "rb_embed", "rb_save", "rb_meta", "finish"}
    /\ env' = [env EXCEPT !.crash = @ - 1]
    /\ IF wk[w].pc = "rb_save"
       THEN \E k \in 0 .. Len(wk[w].chunklist) :
               files' = save_index_interrupted(files, wk[w].path, wk[w].chunklist, k)
       ELSE UNCHANGED files
    /\ wk' = [wk EXCEPT ![w] = [WkIdle EXCEPT !.pc = "dead", !.job = wk[w].job,
                                    !.path = wk[w].path]]
    /\ UNCHANGED <<Aside, docs, chunks, indices, jobs, ups, cl, deleted_returned>>

NextCrash ==
    \/ \E p \in Procs : Crash_upsert(p)
    \/ \E w \in Workers : Crash_worker(w)

NextUpsert ==
    \/ \E c \in Clients :
        \/ v1_docs_upsert_single(c)
        \/ v1_docs_upsert_single_return(c)
    \/ \E p \in Procs :
        \/ Upsert_read(p)
        \/ Upsert_flush(p)
        \/ Upsert_embed_load_index(p)
        \/ Upsert_insert_chunks(p)
        \/ Upsert_save_file(p)
        \/ Upsert_save_meta(p)
        \/ Upsert_commit(p)
        \/ Upsert_fail(p)

NextDelete ==
    \E c \in Clients :
        \/ v1_docs_delete_read(c)
        \/ v1_docs_delete_commit(c)
        \/ v1_docs_delete_mark_dirty(c)
        \/ v1_docs_delete_create_job(c)

NextSearch ==
    \E c \in Clients :
        \/ v1_search_load(c)
        \/ v1_search_lookup(c)

NextRebuild ==
    \E c \in Clients : v1_index_rebuild(c)

NextWorker ==
    \E w \in Workers :
        \/ get_next_pending_job_select(w)
        \/ get_next_pending_job_mark(w)
        \/ handle_rebuild_index_read(w)
        \/ handle_rebuild_index_empty(w)
        \/ handle_rebuild_index_commit(w)
        \/ handle_rebuild_index_save_file(w)
        \/ handle_rebuild_index_save_meta(w)
        \/ process_job_completed(w)
        \/ process_job_failed(w)

Next == NextUpsert \/ NextDelete \/ NextSearch \/ NextRebuild \/ NextWorker

\* the whole service: one client upserts, the other deletes, searches and asks for
\* rebuilds, one worker runs the jobs
Spec == Init /\ [][Next]_vars

\* one client alone, upserting: every call runs from start to end undisturbed
InitSolo ==
    InitWith([may |-> [c \in Clients |-> IF c = "c1" THEN {"upsert"} ELSE {}],
              workers |-> {}, docs |-> DocIds, track |-> TRUE, serial |-> FALSE, spaces |-> OneSpace,
              texts |-> Texts, upsert |-> MaxUpserts + 1, delete |-> 0,
              search |-> 0, rebuild |-> 0, crash |-> 0])

SpecSolo == InitSolo /\ [][NextUpsert]_vars

\* one client alone, upserting and deleting, no worker running
InitDelete ==
    InitWith([may |-> [c \in Clients |-> IF c = "c1" THEN {"upsert", "delete"} ELSE {}],
              workers |-> {}, docs |-> DocIds, track |-> FALSE, serial |-> FALSE, spaces |-> OneSpace,
              texts |-> {<<300>>}, upsert |-> MaxUpserts + 1, delete |-> MaxDeletes,
              search |-> 0, rebuild |-> 0, crash |-> 0])

SpecDelete == InitDelete /\ [][NextUpsert \/ NextDelete]_vars

\* two workers polling one jobs table
InitWorkers ==
    InitWith([may |-> [c \in Clients |-> IF c = "c1" THEN {"upsert"} ELSE {"rebuild"}],
              workers |-> Workers, docs |-> {"d1"}, track |-> FALSE, serial |-> FALSE, spaces |-> OneSpace,
              texts |-> {<<300>>}, upsert |-> 1, delete |-> 0,
              search |-> 0, rebuild |-> MaxRebuilds, crash |-> 0])

SpecWorkers == InitWorkers /\ [][NextUpsert \/ NextRebuild \/ NextWorker]_vars

\* one worker, two documents and rebuilds that may re-embed
InitReembed ==
    InitWith([may |-> [c \in Clients |-> IF c = "c1" THEN {"upsert"} ELSE {"rebuild"}],
              workers |-> {"w1"}, docs |-> DocIds, track |-> FALSE, serial |-> FALSE, spaces |-> OneSpace,
              texts |-> {<<300>>}, upsert |-> MaxUpserts, delete |-> 0,
              search |-> 0, rebuild |-> MaxRebuilds + 1, crash |-> 0])

SpecReembed == InitReembed /\ [][NextUpsert \/ NextRebuild \/ NextWorker]_vars

\* one caller sending one request at a time, one worker running between the
\* requests: every request and every job runs from start to end undisturbed
InitSerial ==
    InitWith([may |-> [c \in Clients |->
                          IF c = "c1" THEN {"upsert", "delete", "rebuild", "search"}
                          ELSE {}],
              workers |-> {"w1"}, docs |-> DocIds, track |-> TRUE, serial |-> TRUE,
              spaces |-> OneSpace,
              texts |-> {<<300>>}, upsert |-> MaxUpserts, delete |-> MaxDeletes,
              search |-> MaxSearches, rebuild |-> MaxRebuilds, crash |-> 0])

SpecSerial == InitSerial /\ [][Next]_vars

\* serial requests and jobs, any of which may be cut short by the death of its
\* process
InitCrash ==
    InitWith([may |-> [c \in Clients |->
                          IF c = "c1" THEN {"upsert", "rebuild"} ELSE {}],
              workers |-> {"w1"}, docs |-> DocIds, track |-> FALSE, serial |-> TRUE,
              spaces |-> OneSpace,
              texts |-> {<<300>>, <<500, 500>>}, upsert |-> MaxUpserts, delete |-> 0,
              search |-> 0, rebuild |-> MaxRebuilds, crash |-> MaxCrashes])

SpecCrash == InitCrash /\ [][NextUpsert \/ NextRebuild \/ NextWorker \/ NextCrash]_vars

\* ------------------------------------------------- properties of the upsert
\* the document row as it was when the call of process p began
DocBefore(p) == ups[p].before[1][ups[p].doc]

\* process p is at the end of an upsert whose document was stored, live, with
\* the same text up to normalisation
IdempotentCall(p) ==
    /\ ups[p].pc = "ret"
    /\ ups[p].before # <<>>
    /\ DocBefore(p).present
    /\ ~DocBefore(p).deleted
    /\ normalize_text_for_hash(ups[p].text) = normalize_text_for_hash(DocBefore(p).raw)

\* C3: an upsert of a document that is stored, not deleted and has the same text
\* after normalisation writes nothing (documents, chunks, index metadata, index
\* files and jobs are as they were when the call began) and answers
\* skipped_docs = 1, upserted_docs = 0, chunks_created = 0
C3_IdempotentUpsert ==
    \A p \in Procs :
        IdempotentCall(p) =>
            /\ Store = ups[p].before
            /\ UpsertResponse(ups[p].result) =
                   [status |-> 200, accepted |-> 1, upserted_docs |-> 0,
                    skipped_docs |-> 1, chunks_created |-> 0]

\* a second upsert of a live document that has chunks, with the text of the
\* first, has come to its end
C3_Witness ==
    \E p \in Procs :
        /\ IdempotentCall(p)
        /\ ups[p].text = DocBefore(p).raw
        /\ \E c \in ChunkIds : c[1] = ups[p].doc /\ chunks[c].present /\ ~chunks[c].deleted

\* process p is at the end of an upsert whose document was stored, with another
\* text or soft-deleted, and nothing outside the handler's own code raised
ReplacingCall(p) ==
    /\ ups[p].pc = "ret"
    /\ ups[p].before # <<>>
    /\ DocBefore(p).present
    /\ \/ DocBefore(p).deleted
       \/ normalize_text_for_hash(ups[p].text) # normalize_text_for_hash(DocBefore(p).raw)
    /\ ups[p].result.error # "Raised"

\* the live chunks of document d are exactly the chunks of text, in order
LiveChunksAre(d, text) ==
    LET chunks_text == chunk_text_with_strategy(text) IN
    \A c \in ChunkIds :
        c[1] = d =>
            IF c[2] < Len(chunks_text)
            THEN /\ chunks[c].present
                 /\ ~chunks[c].deleted
                 /\ chunks[c].text = chunks_text[c[2] + 1]
            ELSE chunks[c].present => chunks[c].deleted

\* C4: an upsert of a stored document whose text changed, or which was
\* soft-deleted, succeeds and leaves the document live with the new hash, the
\* chunks of earlier upserts soft-deleted and exactly the chunks of the new text
\* live (this is what the specification says; the code does not do it)
C4_ReupsertReplaces ==
    \A p \in Procs :
        ReplacingCall(p) =>
            /\ ups[p].result.error = "none"
            /\ docs[ups[p].doc].present
            /\ ~docs[ups[p].doc].deleted
            /\ docs[ups[p].doc].hash = compute_doc_hash(ups[p].text)
            /\ LiveChunksAre(ups[p].doc, ups[p].text)

\* process p is at the end of an upsert that raised before its final
\* save-and-commit (lines 269-271) began
FailedEarly(p) ==
    /\ ups[p].pc = "ret"
    /\ ups[p].before # <<>>
    /\ ups[p].result.error # "none"
    /\ ups[p].result.at \in {"flush", "embed", "insert", "save"}

\* C6: an upsert that fails before its final save-and-commit leaves documents,
\* chunks, index metadata, index files and jobs as they were when the call
\* began (this is what the specification says; the code does not do it)
C6_FailedUpsertRollsBack ==
    \A p \in Procs : FailedEarly(p) => Store = ups[p].before

\* ----------------------------------------------- properties of the search
\* the hits a search of client c has collected or returned
HitsOf(c) ==
    cl[c].results \o (IF "chunks" \in DOMAIN cl[c].resp THEN cl[c].resp.chunks ELSE <<>>)

\* C1: no chunk of a search response was soft-deleted when its row was looked
\* up, and none belongs to a document whose DELETE had returned before the
\* lookup (this is what the specification says; the code does not do it)
C1_SearchExcludesDeleted ==
    \A c \in Clients :
        \A i \in 1 .. Len(HitsOf(c)) :
            /\ ~HitsOf(c)[i].deleted
            /\ ~HitsOf(c)[i].after_delete

\* ---------------------------------------------- properties of the job queue
\* the workers that hold job i: they claimed it and have not finished it
Holders(i) == {w \in Workers : wk[w].job = i /\ wk[w].pc \notin {"poll", "claim"}}

\* C2: a pending job is handed to at most one worker and its handler is started
\* at most once (this is what the specification says; the code does not do it)
C2_JobClaimedOnce ==
    \A i \in 1 .. Len(jobs) :
        /\ Cardinality(Holders(i)) <= 1
        /\ jobs[i].runs <= 1

\* C5: a completed or failed job keeps its status for ever and a running job
\* never becomes pending again (this is what the specification says; with two
\* workers the code does not do it)
C5_JobStatusMonotone ==
    [][\A i \in 1 .. Len(jobs) :
          /\ jobs[i].status \in {"completed", "failed"} => jobs'[i].status = jobs[i].status
          /\ jobs[i].status = "running" => jobs'[i].status # "pending"]_vars

\* ------------------------------------------------ properties of the index
\* C7: as long as no job has failed, no two live chunks of one (tenant,
\* namespace, version) have the same non-null faiss_id (this is what the
\* specification says; the code does not do it)
C7_FaissIdUnique ==
    (\A i \in 1 .. Len(jobs) : jobs[i].status # "failed") =>
    \A key \in Keys :
        \A x, y \in LiveChunks(key) :
            (x # y /\ chunks[x].faiss_id # NULL) => chunks[x].faiss_id # chunks[y].faiss_id

\* C8: a live chunk has no faiss_id or one below the ntotal of the metadata row
\* of its key (this is what the specification says; the code does not do it)
C8_FaissIdBelowNtotal ==
    \A key \in Keys :
        \A x \in LiveChunks(key) :
            chunks[x].faiss_id # NULL =>
                /\ indices[key].present
                /\ chunks[x].faiss_id < indices[key].ntotal

\* the persisted index of a key holds the vector of a soft-deleted chunk, or
\* lacks, at its position, the vector of a live chunk that has a faiss_id
Diverges(key) ==
    LET file == files[get_index_path(key)] IN
    \/ /\ file.present
       /\ \E i \in 1 .. Len(file.vecs) :
             chunks[file.vecs[i]].present /\ chunks[file.vecs[i]].deleted
    \/ \E x \in LiveChunks(key) :
          /\ chunks[x].faiss_id # NULL
          /\ ~ /\ file.present
               /\ chunks[x].faiss_id < Len(file.vecs)
               /\ file.vecs[chunks[x].faiss_id + 1] = x

\* no request and no job is under way, and none has failed
Quiet ==
    /\ \A c \in Clients : cl[c].pc = "idle" /\ cl[c].resp.status # 500
    /\ \A p \in Procs : ups[p].pc = "none"
    /\ \A w \in Workers : wk[w].pc = "poll"
    /\ \A i \in 1 .. Len(jobs) : jobs[i].status # "failed"

\* C9: between requests, a key whose persisted index diverges from its live
\* chunks has dirty = true (this is what the specification says; the code does
\* not do it)
C9_DirtyWhenDiverged ==
    Quiet => \A key \in Keys : Diverges(key) => (indices[key].present /\ indices[key].dirty)

\* worker w is between the read of the live chunks and the end of the index
\* save of a rebuild that reads or writes key
Rebuilding(w, key) ==
    /\ wk[w].pc \in {"rb_empty", "rb_embed", "rb_save", "rb_meta"}
    /\ \/ jobs[wk[w].job].key = key
       \/ <<jobs[wk[w].job].key[1], jobs[wk[w].job].key[2],
             TargetVersion(jobs[wk[w].job])>> = key

\* C10: no upsert into a key commits while a rebuild of that key is between
\* its read of the live chunks and its final index save (this is what the
\* specification says; the code does not do it)
C10_RebuildExcludesUpsert ==
    [][\A p \in Procs, w \in Workers :
          ~ /\ Rebuilding(w, <<ups[p].space[1], ups[p].space[2], EMBEDDING_VERSION>>)
            /\ ups[p].pc = "commit"
            /\ ups'[p].pc = "ret"
            /\ ups'[p].result.error = "none"]_vars

\* --------------------------------------------- properties of the rebuild
\* the handler of worker w has returned from a rebuild
RebuildDone(w) == wk[w].pc = "finish" /\ wk[w].before # <<>>

\* the chunks that were live in the job's key when the handler read them
LiveBefore(w) ==
    LET was == wk[w].before[2]
        key == jobs[wk[w].job].key
    IN  {c \in ChunkIds : /\ was[c].present
                          /\ was[c].space = <<key[1], key[2]>>
                          /\ was[c].version = key[3]
                          /\ ~was[c].deleted}

\* the chunks have the faiss_ids 0..n-1 and the index of key is exactly their
\* vectors, each at the position of its faiss_id, with ntotal = n and dirty clear
RebuiltInto(w, key) ==
    LET n == Cardinality(LiveBefore(w)) IN
    /\ {chunks[c].faiss_id : c \in LiveBefore(w)} = 0 .. (n - 1)
    /\ indices[key].present
    /\ indices[key].ntotal = n
    /\ ~indices[key].dirty
    /\ files[indices[key].path].present
    /\ Len(files[indices[key].path].vecs) = n
    /\ \A c \in LiveBefore(w) :
          files[indices[key].path].vecs[chunks[c].faiss_id + 1] = c

\* the key the rebuilt chunks end in: the job's key, or on a re-embed of at
\* least one chunk the key of the target version
EndKey(w) ==
    LET job == jobs[wk[w].job] IN
    IF LiveBefore(w) = {} THEN job.key
    ELSE <<job.key[1], job.key[2], TargetVersion(job)>>

DiesInSave ==
    \/ \E p \in Procs : ups[p].pc = "save" /\ ups'[p].pc = "dead"
    \/ \E w \in Workers : wk[w].pc = "rb_save" /\ wk'[w].pc = "dead"

\* C12: a process killed inside save_index before the rename leaves every
\* index file at its destination path as it was, and no destination path ever
\* holds a partially written index
C12_AtomicSave ==
    [][/\ DiesInSave => \A path \in Paths : files'[path] = files[path]
       /\ \A path \in Paths : files'[path].present => files'[path].whole]_vars

\* a process died inside save_index with its temp file partly written, over a
\* destination that held an index
C12_Witness ==
    \E path \in Paths :
        /\ files[TempPath(path)].present
        /\ ~files[TempPath(path)].whole
        /\ files[path].present
        /\ files[path].vecs # <<>>
        /\ \/ \E p \in Procs : ups[p].pc = "dead" /\ ups[p].path = path
           \/ \E w \in Workers : wk[w].pc = "dead" /\ wk[w].path = path

\* ------------------------------------------ properties of the worker loop
\* C13: a job whose handler raised (its error text is recorded) and that no
\* worker is processing any more has status failed
C13_RaisedJobEndsFailed ==
    \A i \in 1 .. Len(jobs) :
        (jobs[i].error /\ Holders(i) = {}) => jobs[i].status = "failed"

\* ------------------------------------- properties of re-embedding and search
\* what a search of key answers from the store st when top_k does not cut it
\* short: load_index, then for every position of the index the lookup of lines
\* 721-727
Searchable(st, key) ==
    LET chs == st[2]
        ixs == st[3]
        fs == st[4]
        index == IF ixs[key].present /\ fs[ixs[key].path].present
                 THEN fs[ixs[key].path].vecs
                 ELSE <<>>
    IN  {k \in ChunkIds : /\ chs[k].present
                          /\ chs[k].space = <<key[1], key[2]>>
                          /\ chs[k].version = key[3]
                          /\ chs[k].faiss_id \in 0 .. (Len(index) - 1)
                          /\ ~chs[k].deleted}

\* worker w is in or just through a rebuild that re-embeds the job's key into
\* another embedding version
Reembedding(w) ==
    /\ wk[w].pc \in {"rb_embed", "rb_save", "rb_meta", "finish"}
    /\ wk[w].before # <<>>
    /\ jobs[wk[w].job].reembed
    /\ TargetVersion(jobs[wk[w].job]) # jobs[wk[w].job].key[3]

\* C14: while and after a rebuild re-embeds a key into another version, a
\* search of the original key answers with the chunks it answered with before
\* (said of the runs in which no job has failed)
C14_ReembedKeepsOriginalSearch ==
    \A w \in Workers :
        (Reembedding(w) /\ \A i \in 1 .. Len(jobs) : jobs[i].status # "failed") =>
            Searchable(Store, jobs[wk[w].job].key)
                = Searchable(wk[w].before, jobs[wk[w].job].key)

\* ------------------------------------------------ properties of the delete
\* one caller upserting and deleting one request at a time, one worker running
\* the rebuild jobs between the requests
InitDeleteTwice ==
    InitWith([may |-> [c \in Clients |-> IF c = "c1" THEN {"upsert", "delete"} ELSE {}],
              workers |-> {"w1"}, docs |-> DocIds, track |-> TRUE, serial |-> TRUE,
              spaces |-> OneSpace,
              texts |-> {<<300>>, <<500, 500>>}, upsert |-> MaxUpserts,
              delete |-> MaxDeletes + 1,
              search |-> 0, rebuild |-> 0, crash |-> 0])

SpecDeleteTwice == InitDeleteTwice /\ [][NextUpsert \/ NextDelete \/ NextWorker]_vars

\* the chunks of document d that were live in the chunks table chs
LiveChunksOf(chs, d) ==
    {k \in ChunkIds : k[1] = d /\ chs[k].present /\ ~chs[k].deleted}

\* the DELETE of client c has returned 200: against the store it began with,
\* the document and its live chunks are soft-deleted and no other row differs,
\* chunks_deleted counts those chunks, the index of the document's key is dirty
\* and the jobs table has one more row, a pending rebuild_index job for the key
DeleteDone(c) ==
    LET d == cl[c].resp.doc_id
        was == cl[c].before
        key == <<was[1][d].space[1], was[1][d].space[2], was[1][d].version>>
    IN  /\ was[1][d].present /\ ~was[1][d].deleted
        /\ docs = [was[1] EXCEPT ![d].deleted = TRUE]
        /\ chunks = [k \in ChunkIds |->
                        IF k \in LiveChunksOf(was[2], d)
                        THEN [was[2][k] EXCEPT !.deleted = TRUE]
                        ELSE was[2][k]]
        /\ cl[c].resp.chunks_deleted = Cardinality(LiveChunksOf(was[2], d))
        /\ indices[key].present /\ indices[key].dirty
        /\ jobs = Append(was[5], NewJob("rebuild_index", key, FALSE, None))
        /\ cl[c].resp.job_id = Len(jobs)

C16_DeleteNotFound ==
    [][env'.delete < env.delete =>
         \E c \in Clients :
            /\ "delete" \in env.may[c]
            /\ cl[c].pc = "idle"
            /\ \A o \in Clients \ {c} : cl'[o] = cl[o]
            /\ cl'[c].doc \in DocIds
            /\ IF docs[cl'[c].doc].present /\ ~docs[cl'[c].doc].deleted
               THEN cl'[c].pc = "del_commit"
               ELSE /\ cl'[c].pc = "idle"
                    /\ cl'[c].resp = [status |-> 404]
                    /\ Store' = Store]_vars

\* delete(d); delete(d): the second DELETE was answered 404 and the jobs table
\* holds the one job of the first
C16_Witness ==
    \E c \in Clients :
        /\ cl[c].pc = "idle"
        /\ cl[c].resp = [status |-> 404]
        /\ cl[c].doc \in DocIds
        /\ docs[cl[c].doc].deleted
        /\ Len(jobs) = 1

\* ------------------------------------------ properties of tenant isolation
\* two tenants whose keys map to one index file name
CollidingSpaces ==
    { <<(<<"t1", "/", "x">>), (<<"n1">>)>>, <<(<<"t1">>), (<<"x", "_", "n1">>)>> }

\* one request at a time, from either of the two tenants, one worker running
\* between the requests
InitTenants ==
    InitWith([may |-> [c \in Clients |->
                          IF c = "c1" THEN {"upsert", "rebuild", "search"} ELSE {}],
              workers |-> {"w1"}, docs |-> DocIds, track |-> FALSE, serial |-> TRUE,
              spaces |-> CollidingSpaces,
              texts |-> {<<300>>}, upsert |-> MaxUpserts, delete |-> 0,
              search |-> MaxSearches, rebuild |-> MaxRebuilds, crash |-> 0])

SpecTenants == InitTenants /\ [][NextUpsert \/ NextRebuild \/ NextSearch \/ NextWorker]_vars

\* the hits of client c's search after a step, collected or returned
HitsAfter(c) ==
    IF cl[c].pc = "lookup" THEN cl[c].results ELSE cl[c].resp.chunks

\* C17: every chunk a search collects or returns has the tenant_id, namespace
\* and embedding_version of the request
C17_SearchWithinKey ==
    [][\A c \in Clients :
          cl[c].pc = "lookup" =>
              \A i \in 1 .. Len(HitsAfter(c)') :
                  /\ HitsAfter(c)'[i].space = cl[c].space
                  /\ HitsAfter(c)'[i].version = cl[c].version]_vars

\* a search has returned a chunk after loading an index file that holds the
\* vector of another tenant's chunk
C17_Witness ==
    \E c \in Clients : \E k \in ChunkIds : \E path \in Paths :
        /\ cl[c].pc = "idle"
        /\ cl[c].resp.status = 200
        /\ "chunks" \in DOMAIN cl[c].resp
        /\ Len(cl[c].resp.chunks) > 0
        /\ path = get_index_path(<<cl[c].resp.chunks[1].space[1],
                                   cl[c].resp.chunks[1].space[2],
                                   cl[c].resp.chunks[1].version>>)
        /\ files[path].present
        /\ k \in {files[path].vecs[i] : i \in 1 .. Len(files[path].vecs)}
        /\ chunks[k].present
        /\ chunks[k].space # cl[c].resp.chunks[1].space

\* ---------------------------------------- properties of the search answers
\* C18: a search request for a key that has no row in indices is answered 404;
\* one for a key whose row exists and whose file is missing or holds no vector
\* is answered 200 with an empty chunk list
C18_SearchOfMissingIndex ==
    [][env'.search < env.search =>
         \E c \in Clients :
            /\ "search" \in env.may[c]
            /\ cl[c].pc = "idle"
            /\ \A o \in Clients \ {c} : cl'[o] = cl[o]
            /\ LET key == <<cl'[c].space[1], cl'[c].space[2], cl'[c].version>> IN
                /\ key \in Keys
                /\ IF ~indices[key].present
                   THEN cl'[c].pc = "idle" /\ cl'[c].resp.status = 404
                   ELSE (~files[indices[key].path].present
                            \/ files[indices[key].path].vecs = <<>>)
                        => /\ cl'[c].pc = "idle"
                           /\ cl'[c].resp = [status |-> 200, chunks |-> <<>>]]_vars

\* ============================================== the document analyzer service
\* everything of the retrieval service, which the analyzer never touches
Service == <<docs, chunks, indices, files, jobs, ups, cl, wk, env, deleted_returned>>

\* update_job without the test of lines 90-91: a missing entry is made anew
update_job_recreating(js, job_id, status, progress_pct, result, error) ==
    [js EXCEPT ![job_id] =
        [@ EXCEPT !.present = TRUE,
                  !.status = IF status # None THEN status ELSE @,
                  !.progress_pct = IF progress_pct # NULL THEN progress_pct ELSE @,
                  !.result = IF result.made THEN result ELSE @,
                  !.error = IF error THEN TRUE ELSE @]]

\* update_job: under _job_lock, a no-op for an id that is not in _jobs; only the
\* arguments that are given overwrite a field
update_job(js, job_id, status, progress_pct, result, error) ==
    IF ~js[job_id].present THEN js
    ELSE [js EXCEPT ![job_id] =
            [@ EXCEPT !.status = IF status # None THEN status ELSE @,
                      !.progress_pct = IF progress_pct # NULL THEN progress_pct ELSE @,
                      !.result = IF result.made THEN result ELSE @,
                      !.error = IF error THEN TRUE ELSE @]]

\* POST /analyze/async and /analyze/async/parallel: create_job stores a pending
\* job, run_analysis_job is scheduled as a background task. large: the document
\* is over 3 MB or 50 pages; n: the number of page batches it splits into
analyze_async ==
    /\ an.created < MaxAnJobs
    /\ \E force_parallel \in BOOLEAN, large \in BOOLEAN, n \in 0 .. MaxBatches :
        /\ (~(force_parallel \/ large) => n = 0)
        /\ LET j == an.created + 1 IN
            an' = [an EXCEPT
                     !.created = j,
                     !.jobs[j] = [AnNoJob EXCEPT !.present = TRUE, !.status = "pending"],
                     !.th[j] = [AnIdle EXCEPT !.pc = "queued",
                                              !.parallel = force_parallel \/ large,
                                              !.nbatches = n]]
    /\ UNCHANGED <<Service, lib>>

\* run_analysis_job, line 144
run_analysis_job_start(j) ==
    /\ an.th[j].pc = "queued"
    /\ an' = [an EXCEPT !.jobs = update_job(@, j, "processing", 5, NoAnalysis, FALSE),
                        !.th[j].pc = "started"]
    /\ UNCHANGED <<Service, lib>>

\* run_analysis_job, lines 148-159, and parallel_analyze_document, lines
\* 440-460: the free GPUs are counted (one at least, GPU 0 as the fallback) and
\* the pool gets min(len(batches), len(free_gpus)) threads
run_analysis_job_choose(j) ==
    /\ an.th[j].pc = "started"
    /\ \E free_gpus \in 1 .. MaxGpus :
        an' = [an EXCEPT !.jobs = update_job(@, j, None, 10, NoAnalysis, FALSE),
                         !.th[j].pc = IF an.th[j].parallel THEN "parallel" ELSE "single",
                         !.th[j].free_gpus = IF an.th[j].parallel THEN free_gpus ELSE 0,
                         !.th[j].max_workers = IF an.th[j].parallel
                                               THEN Min(an.th[j].nbatches, free_gpus)
                                               ELSE 0]
    /\ UNCHANGED <<Service, lib>>

\* the batches of every job that are inside a gpu_exclusive_lock block
InsideLock == {jb \in AnJobIds \X (1 .. MaxBatches) : jb[2] \in an.th[jb[1]].inside}

\* gpu_exclusive_lock of gpu_phase_lock.py, the module that parallel_analyzer
\* imports: the context manager yields at once whoever else is inside
gpu_exclusive_lock(holders) == TRUE

\* parallel_analyze_document, lines 466-472, and analyze_batch, lines 225-229:
\* the batches are submitted in their order and an idle pool thread takes the
\* first one not yet begun; it enters the gpu_exclusive_lock block for its LLM
\* call
analyze_batch_enter(j) ==
    /\ an.th[j].pc = "parallel"
    /\ Cardinality(an.th[j].inside) < an.th[j].max_workers
    /\ gpu_exclusive_lock(InsideLock)
    /\ \E b \in (1 .. an.th[j].nbatches) \ (an.th[j].done \cup an.th[j].inside) :
        /\ \A a \in 1 .. (b - 1) : a \in an.th[j].done \cup an.th[j].inside
        /\ an' = [an EXCEPT !.th[j].inside = @ \cup {b}]
    /\ UNCHANGED <<Service, lib>>

\* analyze_batch, lines 230-299, and parallel_analyze_document, lines 482-514:
\* the LLM call returns or raises, the block is left and the future completes
\* with a PartialAnalysis that carries an error or not
analyze_batch(j) ==
    /\ an.th[j].pc = "parallel"
    /\ \E b \in an.th[j].inside, err \in BOOLEAN :
        an' = [an EXCEPT !.th[j].inside = @ \ {b},
                         !.th[j].done = @ \cup {b},
                         !.th[j].failed = IF err THEN @ \cup {b} ELSE @]
    /\ UNCHANGED <<Service, lib>>

\* aggregate_analyses: the batches with an error are counted and listed in
\* extra["errors"], the others are merged
aggregate_analyses(n, failed) ==
    [parallel |-> TRUE, batches_processed |-> n - Cardinality(failed),
     batches_failed |-> Cardinality(failed), errors |-> failed, made |-> TRUE]

\* line 524: failed_count > len(batches) * 0.5
TooManyFailures(failed_count, n) == failed_count * 2 > n

\* parallel_analyze_document, lines 517-536: all futures are in; aggregate, call
\* full_cleanup on too many failures (report_failed needs a doc_id, which no
\* caller passes), return the result
parallel_analyze_document_return(j) ==
    /\ an.th[j].pc = "parallel"
    /\ an.th[j].nbatches > 0
    /\ an.th[j].done = 1 .. an.th[j].nbatches
    /\ an' = [an EXCEPT
                !.th[j].analysis = aggregate_analyses(an.th[j].nbatches, an.th[j].failed),
                !.th[j].full_cleanup = TooManyFailures(Cardinality(an.th[j].failed),
                                                       an.th[j].nbatches),
                !.th[j].pc = "analysed"]
    /\ UNCHANGED <<Service, lib>>

\* parallel_analyze_document, lines 538-544, and run_analysis_job, lines 181-183:
\* no batch at all, ThreadPoolExecutor(max_workers=0) raises; full_cleanup, the
\* exception goes up and the job is set to failed
parallel_analyze_document_raise(j) ==
    /\ an.th[j].pc = "parallel"
    /\ an.th[j].nbatches = 0
    /\ an' = [an EXCEPT !.jobs = update_job(@, j, "failed", NULL, NoAnalysis, TRUE),
                        !.th[j].full_cleanup = TRUE,
                        !.th[j].pc = "done"]
    /\ UNCHANGED <<Service, lib>>

\* run_analysis_job, lines 161-165: the single analysis
analyze_document(j) ==
    /\ an.th[j].pc = "single"
    /\ an' = [an EXCEPT !.th[j].analysis = [NoAnalysis EXCEPT !.made = TRUE],
                        !.th[j].pc = "analysed"]
    /\ UNCHANGED <<Service, lib>>

\* run_analysis_job, lines 170-176: GPU cleanup, then the job is completed with
\* the result
run_analysis_job_completed(j) ==
    /\ an.th[j].pc = "analysed"
    /\ an' = [an EXCEPT !.jobs = update_job(@, j, "completed", 100, an.th[j].analysis, FALSE),
                        !.th[j].pc = "completed"]
    /\ UNCHANGED <<Service, lib>>

\* run_analysis_job, lines 177-179
run_analysis_job_return(j) ==
    /\ an.th[j].pc = "completed"
    /\ an' = [an EXCEPT !.th[j].pc = "done"]
    /\ UNCHANGED <<Service, lib>>

\* an exception anywhere in the try block
MayRaise_anywhere(pc) == pc \in {"started", "single", "analysed", "completed"}

\* where the try block of run_analysis_job can raise besides the parallel
\* analysis: the GPU cleanup of lines 170-171 (a CUDA error in cleanup_pytorch)
MayRaise(pc) == pc = "analysed"

\* run_analysis_job, lines 181-183
run_analysis_job_except(j) ==
    /\ MayRaise(an.th[j].pc)
    /\ an' = [an EXCEPT !.jobs = update_job(@, j, "failed", NULL, NoAnalysis, TRUE),
                        !.th[j].pc = "done"]
    /\ UNCHANGED <<Service, lib>>

\* DELETE /analyze/jobs/{job_id}: the entry is removed, a running task goes on
cancel_job(j) ==
    /\ an.jobs[j].present
    /\ an' = [an EXCEPT !.jobs[j] = AnNoJob, !.th[j].cancelled_in = an.th[j].pc]
    /\ UNCHANGED <<Service, lib>>

\* cleanup_old_jobs (GET /analyze/jobs): the completed and failed jobs older
\* than an hour are removed
cleanup_old_jobs ==
    /\ \E old \in SUBSET {j \in AnJobIds : an.jobs[j].present
                                          /\ an.jobs[j].status \in {"completed", "failed"}} :
        /\ old # {}
        /\ an' = [an EXCEPT !.jobs = [j \in AnJobIds |->
                                        IF j \in old THEN AnNoJob ELSE an.jobs[j]]]
    /\ UNCHANGED <<Service, lib>>

NextAnalyzer ==
    \/ analyze_async
    \/ cleanup_old_jobs
    \/ \E j \in AnJobIds :
        \/ run_analysis_job_start(j)
        \/ run_analysis_job_choose(j)
        \/ analyze_batch_enter(j)
        \/ analyze_batch(j)
        \/ parallel_analyze_document_return(j)
        \/ parallel_analyze_document_raise(j)
        \/ analyze_document(j)
        \/ run_analysis_job_completed(j)
        \/ run_analysis_job_return(j)
        \/ run_analysis_job_except(j)
        \/ cancel_job(j)

\* the analyzer service alone
InitAnalyzer ==
    InitWith([may |-> [c \in Clients |-> {}],
              workers |-> {}, docs |-> {}, track |-> FALSE, serial |-> FALSE,
              spaces |-> OneSpace,
              texts |-> {}, upsert |-> 0, delete |-> 0,
              search |-> 0, rebuild |-> 0, crash |-> 0])

SpecAnalyzer == InitAnalyzer /\ [][NextAnalyzer]_vars

\* ------------------------------------- properties of the parallel analysis
\* C19: once the parallel analysis of a job has all its batches in: with more
\* than half of them failed, full_cleanup was called and the job, when its task
\* is through, has status failed; with at most half failed, the analysis is the
\* aggregate with the failed batches listed as errors
C19_ParallelFailureHandling ==
    \A j \in AnJobIds :
        LET t == an.th[j] IN
        (t.parallel /\ t.analysis.made) =>
            IF Cardinality(t.failed) * 2 > t.nbatches
            THEN /\ t.full_cleanup
                 /\ (t.pc \in {"completed", "done"} /\ an.jobs[j].present)
                        => an.jobs[j].status = "failed"
            ELSE t.analysis = aggregate_analyses(t.nbatches, t.failed)

\* ------------------------------------ properties of the analyzer job status
\* the status changes the state machine allows
AnalyzerStep(from, to) ==
    \/ from = "pending" /\ to = "processing"
    \/ from = "processing" /\ to \in {"completed", "failed"}

\* C20: a new analyzer job is pending, and the status of a job that stays in
\* the store either stays or moves pending -> processing -> completed or failed;
\* from completed and from failed it never moves
C20_AnalyzerStatusMachine ==
    [][\A j \in AnJobIds :
          /\ (~an.jobs[j].present /\ an'.jobs[j].present)
                => an'.jobs[j].status = "pending"
          /\ (an.jobs[j].present /\ an'.jobs[j].present)
                => \/ an'.jobs[j].status = an.jobs[j].status
                   \/ AnalyzerStep(an.jobs[j].status, an'.jobs[j].status)]_vars

\* one job has ended completed and another failed, both tasks through
C20_Witness ==
    \E i, j \in AnJobIds :
        /\ an.jobs[i].present /\ an.jobs[i].status = "completed" /\ an.th[i].pc = "done"
        /\ an.jobs[j].present /\ an.jobs[j].status = "failed" /\ an.th[j].pc = "done"

\* ---------------------------------------- properties of the analyzer cancel
\* GET /analyze/status/{job_id}, lines 377-380: 404 without an entry
get_analysis_status(j) == IF an.jobs[j].present THEN 200 ELSE 404

\* C21: the step that cancels a job removes its entry and leaves its background
\* task where it is, and from then on no step brings the entry back: the
\* status endpoint answers 404 for a created job once it has answered 404
C21_CancelOnlyDeletes ==
    [][\A j \in AnJobIds :
          /\ (an.th[j].pc # "none" /\ get_analysis_status(j) = 404)
                => get_analysis_status(j)' = 404
          /\ (an'.th[j].cancelled_in # an.th[j].cancelled_in)
                => /\ get_analysis_status(j) = 200
                   /\ get_analysis_status(j)' = 404
                   /\ an'.th[j].pc = an.th[j].pc]_vars

\* a job was cancelled while its task was still to start or under way, the task
\* has since run to its end with an analysis, and the entry is still gone
C21_Witness ==
    \E j \in AnJobIds :
        /\ an.th[j].cancelled_in \in {"queued", "started", "parallel", "single"}
        /\ an.th[j].pc = "done"
        /\ an.th[j].analysis.made
        /\ get_analysis_status(j) = 404

\* ------------------------------------ properties of faiss_id and the index file
\* the persisted index of the key of chunk x holds the vector of x at the
\* position that the faiss_id of x names (positions count from 0)
OwnVectorAt(key, x) ==
    LET file == files[get_index_path(key)] IN
    /\ file.present
    /\ chunks[x].faiss_id < Len(file.vecs)
    /\ file.vecs[chunks[x].faiss_id + 1] = x

\* C22: as long as no job has failed, in the committed rows together with the
\* index files every live chunk that has a faiss_id p has its own vector at
\* position p of the persisted index of its key (this is what the
\* specification says; the code does not do it)
C22_FaissIdNamesOwnVector ==
    (\A i \in 1 .. Len(jobs) : jobs[i].status # "failed") =>
    \A key \in Keys :
        \A x \in LiveChunks(key) :
            chunks[x].faiss_id # NULL => OwnVectorAt(key, x)

\* --------------------------------------------- properties of the GPU lock
\* C23: at most one caller is inside a gpu_exclusive_lock block at any time
\* (this is what the specification says; the code does not do it)
C23_GpuLockExclusive == Cardinality(InsideLock) <= 1

\* ------------------------------------------ properties of the upsert's faiss_ids
\* C24: the commit of an upsert that created n chunks in a key whose index held
\* p vectors leaves the new chunks with the faiss_ids p, p+1, ..., p+n-1 in
\* the order of their ordinals (this is what the specification says; the code
\* does not do it)
C24_UpsertAssignsFaissIds ==
    [][\A p \in Procs :
          (ups[p].pc = "commit" /\ ups'[p].pc = "ret"
              /\ ups'[p].result.error = "none") =>
              LET n == ups[p].nchunks
                  held == Len(ups[p].index) - n
              IN  \A i \in 0 .. (n - 1) :
                      /\ chunks'[ChunkIdOf(ups[p].doc, i)].present
                      /\ chunks'[ChunkIdOf(ups[p].doc, i)].faiss_id = held + i]_vars

\* ------------------------------------ properties of the upsert's transaction
\* the request is inside enrich_chunks_batch or embed_texts
InEmbedding(p) == ups[p].pc = "embed"

\* the session of the request has flushed writes that it has not committed
OpenTransaction(p) == ups[p].flushed

\* C25: no upsert is inside context enrichment or embedding while its session
\* has an open transaction with pending writes (this is what the specification
\* says; the code does not do it)
C25_NoTransactionAcrossEmbedding ==
    \A p \in Procs : InEmbedding(p) => ~OpenTransaction(p)

\* ------------------------------------- POST /v1/docs/upsert/batch, ingest_docs
\* the payloads of a batch request: one to MaxIngestDocs upsert requests
IngestPayloads ==
    LET Reqs == [doc : env.docs, space : env.spaces, text : env.texts] IN
    UNION {[1 .. n -> Reqs] : n \in 1 .. MaxIngestDocs}

\* v1_docs_upsert_batch with async_mode: the job is created and the request
\* answers at once with its job_id
v1_docs_upsert_batch(c) ==
    /\ "ingest" \in env.may[c]
    /\ cl[c].pc = "idle"
    /\ MayStartRequest
    /\ \E reqs \in IngestPayloads :
        /\ env.upsert >= Len(reqs)
        /\ env' = [env EXCEPT !.upsert = @ - Len(reqs)]
        /\ jobs' = Append(jobs, [NewJob("ingest_docs", <<(<<>>), (<<>>), None>>, FALSE, None)
                                    EXCEPT !.docs = reqs])
        /\ cl' = [cl EXCEPT ![c] = [ClIdle EXCEPT !.resp =
                     [status |-> 200, accepted |-> Len(reqs), upserted_docs |-> 0,
                      skipped_docs |-> 0, chunks_created |-> 0,
                      job_id |-> Len(jobs) + 1]]]
    /\ UNCHANGED <<Aside, docs, chunks, indices, files, ups, wk, deleted_returned>>

\* process_job calls the handler; lines 300-302
handle_ingest_docs(w) ==
    /\ wk[w].pc = "process"
    /\ jobs[wk[w].job].type = "ingest_docs"
    /\ wk' = [wk EXCEPT ![w].pc = "ingest", ![w].i = 0]
    /\ jobs' = [jobs EXCEPT ![wk[w].job].runs = @ + 1]
    /\ UNCHANGED <<Aside, docs, chunks, indices, files, ups, cl, env, deleted_returned>>

\* lines 303-306: the next document of the payload goes to upsert_document_sync
handle_ingest_docs_upsert(w) ==
    /\ wk[w].pc = "ingest"
    /\ wk[w].i < Len(jobs[wk[w].job].docs)
    /\ LET req == jobs[wk[w].job].docs[wk[w].i + 1] IN
        /\ ups' = [ups EXCEPT ![w] = [UpNone EXCEPT !.pc = "read", !.doc = req.doc,
                            !.space = req.space, !.text = req.text,
                            !.before = IF env.track THEN Store ELSE <<>>]]
        /\ deleted_returned' = deleted_returned \ {req.doc}
    /\ wk' = [wk EXCEPT ![w].pc = "ingest_call"]
    /\ UNCHANGED <<Aside, docs, chunks, indices, files, jobs, cl, env>>

\* lines 306-314: upsert_document_sync returned, the progress is stored; or it
\* raised, the exception is logged and the loop goes on with the next document
handle_ingest_docs_next(w) ==
    /\ wk[w].pc = "ingest_call"
    /\ ups[w].pc = "ret"
    /\ LET total == Len(jobs[wk[w].job].docs)
           i == wk[w].i
       IN  jobs' = IF ups[w].result.error = "none"
                   THEN update_job_status(jobs, wk[w].job, "running",
                                          ((i + 1) * 100) \div total, FALSE)
                   ELSE [jobs EXCEPT ![wk[w].job].failed_docs = @ \cup {i + 1}]
    /\ wk' = [wk EXCEPT ![w].pc = "ingest", ![w].i = @ + 1]
    /\ ups' = [ups EXCEPT ![w] = UpNone]
    /\ UNCHANGED <<Aside, docs, chunks, indices, files, cl, env, deleted_returned>>

\* the loop is through, the handler returns
handle_ingest_docs_return(w) ==
    /\ wk[w].pc = "ingest"
    /\ wk[w].i = Len(jobs[wk[w].job].docs)
    /\ wk' = [wk EXCEPT ![w].pc = "finish"]
    /\ UNCHANGED <<Aside, docs, chunks, indices, files, jobs, ups, cl, env, deleted_returned>>

NextIngest ==
    \/ \E c \in Clients : v1_docs_upsert_batch(c)
    \/ \E w \in Workers :
        \/ handle_ingest_docs(w)
        \/ handle_ingest_docs_upsert(w)
        \/ handle_ingest_docs_next(w)
        \/ handle_ingest_docs_return(w)

\* one client sending single and batch upserts, the other asking for a rebuild,
\* one worker running the jobs
InitIngest ==
    InitWith([may |-> [c \in Clients |-> IF c = "c1" THEN {"upsert", "ingest"}
                                         ELSE {"rebuild"}],
              workers |-> {"w1"}, docs |-> {"d1"}, track |-> FALSE, serial |-> FALSE,
              spaces |-> OneSpace,
              texts |-> {<<300>>, <<500, 500>>}, upsert |-> MaxIngestDocs, delete |-> 0,
              search |-> 0, rebuild |-> 1, crash |-> 0])

SpecIngest == InitIngest /\ [][NextUpsert \/ NextIngest \/ NextRebuild \/ NextWorker]_vars

\* C26: an ingest_docs job with status completed has no document of its
\* payload whose upsert raised (this is what the specification says; the code
\* does not do it)
C26_CompletedIngestHasNoFailure ==
    \A i \in 1 .. Len(jobs) :
        (jobs[i].type = "ingest_docs" /\ jobs[i].status = "completed")
            => jobs[i].failed_docs = {}

\* ------------------------------------------------ the worker is started again
\* worker.py main, run_worker: a new worker process begins to poll; nothing is
\* done about the jobs that the process before it left behind
Restart_worker(w) ==
    /\ wk[w].pc = "dead"
    /\ wk' = [wk EXCEPT ![w] = WkIdle]
    /\ UNCHANGED <<Aside, docs, chunks, indices, files, jobs, ups, cl, env, deleted_returned>>

NextRestart ==
    \E w \in Workers :
        \/ Crash_worker(w)
        \/ Restart_worker(w)

\* one client upserting and asking for a rebuild, one worker that may be killed
\* and is then started again
InitRestart ==
    InitWith([may |-> [c \in Clients |-> IF c = "c1" THEN {"upsert", "rebuild"} ELSE {}],
              workers |-> {"w1"}, docs |-> {"d1"}, track |-> FALSE, serial |-> FALSE,
              spaces |-> OneSpace,
              texts |-> {<<300>>}, upsert |-> 1, delete |-> 0,
              search |-> 0, rebuild |-> MaxRebuilds, crash |-> MaxCrashes])

\* the requests run to their end, the worker keeps polling and its handlers
\* terminate, and a killed worker is started again
SpecRestart ==
    /\ InitRestart
    /\ [][NextUpsert \/ NextRebuild \/ NextWorker \/ NextRestart]_vars
    /\ WF_vars(NextUpsert)
    /\ WF_vars(NextWorker)
    /\ WF_vars(\E w \in Workers : Restart_worker(w))

\* C27: every created job eventually has status completed or failed (this is
\* what the specification says; the code does not do it)
C27_EveryJobEnds ==
    \A i \in 1 .. (MaxRebuilds + MaxDeletes) :
        (Len(jobs) >= i) ~> (Len(jobs) >= i /\ jobs[i].status \in {"completed", "failed"})

\* ------------------------------------------- properties of tenant isolation
\* two tenants, one client upserting and deleting by doc_id
InitCrossTenant ==
    InitWith([may |-> [c \in Clients |-> IF c = "c1" THEN {"upsert", "delete"} ELSE {}],
              workers |-> {}, docs |-> {"d1"}, track |-> FALSE, serial |-> FALSE,
              spaces |-> CollidingSpaces,
              texts |-> {<<0>>, <<300>>}, upsert |-> MaxUpserts + 1,
              delete |-> MaxDeletes + 1,
              search |-> 0, rebuild |-> 0, crash |-> 0])

SpecCrossTenant == InitCrossTenant /\ [][NextUpsert \/ NextDelete]_vars

\* this step soft-deletes, rewrites or re-homes the stored document d, or
\* soft-deletes one of its chunks
Touched(d) ==
    /\ docs[d].present
    /\ \/ docs'[d].space # docs[d].space
       \/ docs'[d].hash # docs[d].hash
       \/ docs'[d].deleted # docs[d].deleted
       \/ \E k \in ChunkIds : /\ k[1] = d
                              /\ chunks[k].present
                              /\ chunks'[k].deleted # chunks[k].deleted

\* this step is the commit of a delete or of an upsert that names d and was
\* made for the tenant and namespace that d is stored under
ByOwnTenant(d) ==
    \/ \E c \in Clients : /\ cl[c].pc = "del_commit"
                          /\ cl[c].doc = d
                          /\ cl[c].req_space = docs[d].space
    \/ \E p \in Procs : /\ ups[p].pc \in {"flush", "commit"}
                        /\ ups[p].doc = d
                        /\ ups[p].space = docs[d].space

\* C28: a stored document and its chunks are soft-deleted, rewritten or
\* re-homed only by a request made for the document's own tenant and namespace
\* (this is what the specification says; the code does not do it)
C28_TenantIsolation ==
    [][\A d \in DocIds : Touched(d) => ByOwnTenant(d)]_vars

\* --------------------------------------------- properties of a read-only search
\* this step is a step of a search request: its load_index and FAISS search, or
\* one lookup of its loop
IsSearchStep ==
    \/ env'.search # env.search
    \/ \E c \in Clients : cl[c].pc = "lookup" /\ cl'[c] # cl[c]

\* C29: no step of a search request changes a document, chunk or index
\* metadata row or an index file (this is what the specification says; the code
\* does not do it)
C29_SearchReadOnly ==
    [][IsSearchStep => <<docs, chunks, indices, files>>' = <<docs, chunks, indices, files>>]_vars

\* -------------------------------------------- properties of the size of an answer
\* one caller sending one request at a time, a document of three chunks and
\* one of a single chunk
InitTopK ==
    InitWith([may |-> [c \in Clients |->
                          IF c = "c1" THEN {"upsert", "delete", "rebuild", "search"}
                          ELSE {}],
              workers |-> {"w1"}, docs |-> DocIds, track |-> FALSE, serial |-> TRUE,
              spaces |-> OneSpace,
              texts |-> {<<300>>, <<500, 500, 500>>}, upsert |-> MaxUpserts,
              delete |-> MaxDeletes, search |-> MaxSearches, rebuild |-> MaxRebuilds,
              crash |-> 0])

\* every step of the service but the raised exceptions: no upsert and no job
\* fails for a reason outside the service
NextTopK ==
    \/ \E c \in Clients :
        \/ v1_docs_upsert_single(c)
        \/ v1_docs_upsert_single_return(c)
    \/ \E p \in Procs :
        \/ Upsert_read(p)
        \/ Upsert_flush(p)
        \/ Upsert_embed_load_index(p)
        \/ Upsert_insert_chunks(p)
        \/ Upsert_save_file(p)
        \/ Upsert_save_meta(p)
        \/ Upsert_commit(p)
    \/ NextDelete
    \/ NextSearch
    \/ NextRebuild
    \/ \E w \in Workers :
        \/ get_next_pending_job_select(w)
        \/ get_next_pending_job_mark(w)
        \/ handle_rebuild_index_read(w)
        \/ handle_rebuild_index_empty(w)
        \/ handle_rebuild_index_commit(w)
        \/ handle_rebuild_index_save_file(w)
        \/ handle_rebuild_index_save_meta(w)
        \/ process_job_completed(w)

SpecTopK == InitTopK /\ [][NextTopK]_vars

\* the positions of the persisted index of a key that hold the vector of a
\* live chunk of that key whose faiss_id names the position
LiveInIndex(key) ==
    LET file == files[get_index_path(key)] IN
    IF ~file.present THEN {}
    ELSE {i \in 1 .. Len(file.vecs) :
             LET k == file.vecs[i] IN
             /\ chunks[k].present
             /\ ~chunks[k].deleted
             /\ chunks[k].space = <<key[1], key[2]>>
             /\ chunks[k].version = key[3]
             /\ chunks[k].faiss_id = i - 1}

\* every vector of the persisted index of a key is the vector of a live chunk
\* that its faiss_id names or of a soft-deleted chunk
OnlyLiveOrDeleted(key) ==
    LET file == files[get_index_path(key)] IN
    file.present =>
        \A i \in 1 .. Len(file.vecs) :
            \/ i \in LiveInIndex(key)
            \/ chunks[file.vecs[i]].present /\ chunks[file.vecs[i]].deleted

\* C30: a search over an index that holds nothing but the vectors of its live
\* chunks and of soft-deleted chunks returns, when its lookups are through,
\* top_k chunks if the index holds at least top_k live chunks, and all the
\* live chunks if it holds fewer (this is what the specification says; the
\* code does not do it)
C30_SearchReturnsTopK ==
    [][\A c \in Clients :
          LET key == <<cl[c].space[1], cl[c].space[2], cl[c].version>> IN
          (cl[c].pc = "lookup" /\ cl'[c].pc = "idle" /\ OnlyLiveOrDeleted(key)) =>
              Len(cl'[c].resp.chunks) =
                  Min(cl[c].top_k, Cardinality(LiveInIndex(key)))]_vars

\* -------------------------------------- properties of chunks and their document
\* C31: in the committed rows every live chunk belongs to a stored document
\* that is live and has the chunk's tenant_id and namespace (this is what the
\* specification says; the code does not do it)
C31_LiveChunkHasLiveDocument ==
    \A k \in ChunkIds :
        (chunks[k].present /\ ~chunks[k].deleted) =>
            /\ docs[k[1]].present
            /\ ~docs[k[1]].deleted
            /\ docs[k[1]].space = chunks[k].space

\* ====================================================== the GPU task manager
\* lines 368-374
_is_ollama_task(task_type) == task_type = "ollama_analysis"
_is_pytorch_task(task_type) == task_type = "pytorch_embedding"

\* lines 376-397: which cleanup a change of task kind calls for
_needs_task_switch_cleanup(last, new_task) ==
    IF last = None THEN "none"
    ELSE IF _is_ollama_task(last) /\ _is_pytorch_task(new_task) THEN "ollama"
    ELSE IF _is_pytorch_task(last) /\ _is_ollama_task(new_task) THEN "pytorch"
    ELSE "none"

\* acquire, lines 420-437: cleanup_pytorch is called on a switch from PyTorch
\* to Ollama and, through full_cleanup, on cleanup_before; it has no handler
\* around torch.cuda.empty_cache() and synchronize() (lines 304-323), so a CUDA
\* error goes up through acquire. unload_ollama_models catches its timeouts
\* and errors itself (lines 337-355)
AcquireRaises(cleanup_type, cleanup_before, cuda_error) ==
    cuda_error /\ (cleanup_type = "pytorch" \/ cleanup_before)

\* GPUManager.acquire, the whole body under _task_lock: the task-switch
\* cleanup, the cleanup asked for, then the task is recorded and True returned
acquire(g) ==
    /\ lib.gm.th[g].pc = "out"
    /\ lib.gm.calls < MaxGpuCalls
    /\ \E task_type \in TaskTypes, cleanup_before \in BOOLEAN,
          ollama_timeout \in BOOLEAN, cuda_error \in BOOLEAN :
        LET cleanup_type == _needs_task_switch_cleanup(lib.gm._last_task_type, task_type)
            unloads == cleanup_type = "ollama" \/ cleanup_before
            cleans == cleanup_type = "pytorch" \/ cleanup_before
            failed == (unloads /\ ollama_timeout) \/ (cleans /\ cuda_error)
        IN  /\ (ollama_timeout => unloads)
            /\ (cuda_error => cleans)
            /\ IF AcquireRaises(cleanup_type, cleanup_before, cuda_error)
               THEN lib' = [lib EXCEPT
                              !.gm.calls = @ + 1,
                              !.gm.th[g] = [pc |-> "raised", task_type |-> task_type,
                                            cleanup_failed |-> TRUE]]
               ELSE lib' = [lib EXCEPT
                              !.gm.calls = @ + 1,
                              !.gm._current_task = [task_type |-> task_type, doc_id |-> g],
                              !.gm._last_task_type = task_type,
                              !.gm.th[g] = [pc |-> "holding", task_type |-> task_type,
                                            cleanup_failed |-> failed]]
    /\ UNCHANGED <<Service, an>>

\* the caller whose acquire raised goes on without the GPU (GPUTask.__enter__
\* raised, the body of the with block is not run)
acquire_raised(g) ==
    /\ lib.gm.th[g].pc = "raised"
    /\ lib' = [lib EXCEPT !.gm.th[g] = GmOut]
    /\ UNCHANGED <<Service, an>>

\* GPUManager.release, lines 471-485: the recorded task, whosever it is, is
\* cleared; then cleanup_pytorch when cleanup_after
release(g) ==
    /\ lib.gm.th[g].pc = "holding"
    /\ lib' = [lib EXCEPT !.gm._current_task = NoTask,
                          !.gm.th[g] = GmOut]
    /\ UNCHANGED <<Service, an>>

\* GPUManager.get_current_task, lines 487-490
get_current_task == lib.gm._current_task

NextGpu ==
    \E g \in GpuCallers :
        \/ acquire(g)
        \/ acquire_raised(g)
        \/ release(g)

\* the GPU manager of one process and two threads that use it
SpecGpu == InitAnalyzer /\ [][NextGpu]_vars

\* C32: an acquire during which a cleanup timed out or raised still succeeds:
\* the caller holds the GPU and its task is the recorded one (this is what the
\* specification says; the code does not do it)
C32_CleanupIsBestEffort ==
    [][\A g \in GpuCallers :
          (lib.gm.th[g].pc = "out" /\ lib'.gm.th[g].pc # "out"
              /\ lib'.gm.th[g].cleanup_failed) =>
              /\ lib'.gm.th[g].pc = "holding"
              /\ lib'.gm._current_task =
                     [task_type |-> lib'.gm.th[g].task_type, doc_id |-> g]]_vars

\* C33: while a caller is between its acquire and its release,
\* get_current_task reports a task, and a release leaves the recorded task of
\* another caller that still holds it in place (this is what the specification
\* says; the code does not do it)
C33_TaskRecordedWhileHeld ==
    (\E g \in GpuCallers : lib.gm.th[g].pc = "holding") => get_current_task # NoTask

\* parallel_analyze_document, lines 468-470: batch_idx (from 0; the model counts
\* batches from 1) goes round-robin to free_gpus[batch_idx % len(free_gpus)],
\* and get_ollama_url_for_gpu, lines 57-71, gives every GPU of the list its own
\* Ollama instance; the endpoint is named by the position in free_gpus
get_ollama_url_for_gpu(j, b) == (b - 1) % an.th[j].free_gpus

\* C34: during a parallel analysis no two batches are in flight on the same
\* device-pinned endpoint, and at most min(batches, free devices) batches are
\* in flight in total (this is what the specification says; the code does not
\* do the first)
C34_OneBatchPerEndpoint ==
    \A j \in AnJobIds :
        an.th[j].pc = "parallel" =>
            /\ \A a, b \in an.th[j].inside :
                   get_ollama_url_for_gpu(j, a) = get_ollama_url_for_gpu(j, b) => a = b
            /\ Cardinality(an.th[j].inside) <= Min(an.th[j].nbatches, an.th[j].free_gpus)

\* the second half of C34 alone
C34_AtMostPoolSizeInFlight ==
    \A j \in AnJobIds :
        an.th[j].pc = "parallel" =>
            Cardinality(an.th[j].inside) <= Min(an.th[j].nbatches, an.th[j].free_gpus)

\* ---------------------------------------------------------------------------
\* NU_parallel_embedder.py: ParallelEmbedder

TextAlphabet == {"a", "b"}
EmbedTexts == UNION {[1 .. n -> TextAlphabet] : n \in 1 .. MaxTexts}

\* model.encode: one row per text, in the order given; the row depends on the
\* text only (the GPU workers and the CPU fallback load the same model)
encode(texts) == [i \in 1 .. Len(texts) |-> [embedding_of |-> texts[i]]]

NoRows == <<[embedding_of |-> None]>>

\* ParallelEmbedder._distribute_texts, lines 262-286: ceil(n / gpus) texts per
\* GPU, a slice for every GPU whose start lies before the end of the list;
\* start and end count from 0 as in the code, the slice is texts[start:end]
_distribute_texts(texts, n_gpus) ==
    LET n_texts == Len(texts)
        texts_per_gpu == (n_texts + n_gpus - 1) \div n_gpus
        start(i) == i * texts_per_gpu
        end(i) == Min(start(i) + texts_per_gpu, n_texts)
        used == {i \in 0 .. (n_gpus - 1) : start(i) < n_texts}
    IN [k \in 1 .. Cardinality(used) |->
           [texts |-> SubSeq(texts, start(k - 1) + 1, end(k - 1)),
            gpu_idx |-> k - 1,
            start |-> start(k - 1),
            end |-> end(k - 1)]]

\* np.vstack of a list of row blocks
RECURSIVE vstack(_)
vstack(blocks) ==
    IF blocks = <<>> THEN <<>> ELSE Head(blocks) \o vstack(Tail(blocks))

\* the rows stacked in the order in which the batches completed
ordered_results_as_completed(results, completed) ==
    [k \in 1 .. Len(completed) |-> results[completed[k]]]

\* embed, line 391: [results[i] for i in range(len(batches))]
ordered_results(results, completed) ==
    [k \in 1 .. Len(results) |-> results[k]]

\* embed, lines 288-343: no text raises ValueError (not drawn); without a free
\* GPU the CPU embeds everything; fewer texts than min_texts_for_parallel or a
\* single GPU: that GPU embeds everything, the CPU if it fails (an exception of
\* the CPU model is not caught); otherwise the slices are submitted to the pool
embed(texts, n_gpus, min_texts_for_parallel, gpu_ok, cpu_ok) ==
    /\ lib.pe.pc = "idle"
    /\ lib.pe.calls < MaxEmbedCalls
    /\ IF n_gpus = 0 \/ Len(texts) < min_texts_for_parallel \/ n_gpus = 1
       THEN IF (n_gpus = 0 \/ ~gpu_ok) /\ ~cpu_ok
            THEN lib' = [lib EXCEPT !.pe.pc = "raised",
                                    !.pe.texts = texts,
                                    !.pe.calls = @ + 1]
            ELSE lib' = [lib EXCEPT !.pe.pc = "returned",
                                    !.pe.texts = texts,
                                    !.pe.out = encode(texts),
                                    !.pe.calls = @ + 1]
       ELSE LET batches == _distribute_texts(texts, n_gpus)
            IN lib' = [lib EXCEPT !.pe.pc = "parallel",
                                  !.pe.texts = texts,
                                  !.pe.batches = batches,
                                  !.pe.futures = DOMAIN batches,
                                  !.pe.results = [k \in DOMAIN batches |-> NoRows],
                                  !.pe.calls = @ + 1]
    /\ UNCHANGED <<Service, an>>

\* _embed_batch_on_gpu, lines 229-260, and embed, lines 358-378: a future
\* completes, in any order; its rows are stored under its batch index, a batch
\* that failed (no worker, OOM, any exception) stores nothing
_embed_batch_on_gpu(i, ok) ==
    /\ lib.pe.pc = "parallel"
    /\ i \in lib.pe.futures
    /\ lib' = [lib EXCEPT !.pe.futures = @ \ {i},
                          !.pe.completed = Append(@, i),
                          !.pe.results[i] = IF ok THEN encode(lib.pe.batches[i].texts)
                                                  ELSE @]
    /\ UNCHANGED <<Service, an>>

\* embed, lines 380-414: every batch without rows is embedded again on the CPU;
\* if that fails too, RuntimeError; the blocks are stacked by batch index
embed_return(cpu_ok) ==
    /\ lib.pe.pc = "parallel"
    /\ lib.pe.futures = {}
    /\ LET failed_batches == {k \in DOMAIN lib.pe.batches : lib.pe.results[k] = NoRows}
           results == [k \in DOMAIN lib.pe.batches |->
                          IF k \in failed_batches
                          THEN encode(lib.pe.batches[k].texts)
                          ELSE lib.pe.results[k]]
       IN IF failed_batches # {} /\ ~cpu_ok
          THEN lib' = [lib EXCEPT !.pe.pc = "raised"]
          ELSE lib' = [lib EXCEPT !.pe.pc = "returned",
                                  !.pe.results = results,
                                  !.pe.out = vstack(ordered_results(results,
                                                                    lib.pe.completed))]
    /\ UNCHANGED <<Service, an>>

\* the caller has its rows or its exception; the next call starts afresh
embed_done ==
    /\ lib.pe.pc \in {"returned", "raised"}
    /\ lib' = [lib EXCEPT !.pe = [PeIdle EXCEPT !.calls = lib.pe.calls]]
    /\ UNCHANGED <<Service, an>>

NextEmbedder ==
    \/ \E texts \in EmbedTexts, n_gpus \in 0 .. MaxEmbedGpus,
          min_texts_for_parallel \in {2, 10}, gpu_ok \in BOOLEAN, cpu_ok \in BOOLEAN :
          embed(texts, n_gpus, min_texts_for_parallel, gpu_ok, cpu_ok)
    \/ \E i \in 1 .. MaxEmbedGpus, ok \in BOOLEAN : _embed_batch_on_gpu(i, ok)
    \/ \E cpu_ok \in BOOLEAN : embed_return(cpu_ok)
    \/ embed_done

SpecEmbedder == InitAnalyzer /\ [][NextEmbedder]_vars

\* the slices are contiguous, disjoint and cover the texts
SlicesPartition(texts, batches) ==
    /\ Len(batches) >= 1
    /\ batches[1].start = 0
    /\ batches[Len(batches)].end = Len(texts)
    /\ \A k \in DOMAIN batches :
          /\ batches[k].start < batches[k].end
          /\ batches[k].texts = SubSeq(texts, batches[k].start + 1, batches[k].end)
          /\ k > 1 => batches[k].start = batches[k - 1].end

\* C35: embed returns one row per text in input order, row i the embedding of
\* texts[i], whatever the order of completion and whichever slices went to the
\* CPU fallback; the slices of a parallel call are contiguous, disjoint and
\* cover all texts
C35_RowsInInputOrder ==
    /\ lib.pe.pc = "returned" =>
          /\ Len(lib.pe.out) = Len(lib.pe.texts)
          /\ \A i \in 1 .. Len(lib.pe.texts) :
                lib.pe.out[i] = [embedding_of |-> lib.pe.texts[i]]
    /\ lib.pe.batches # <<>> => SlicesPartition(lib.pe.texts, lib.pe.batches)

\* a parallel call over three slices of different texts has returned; the
\* last slice completed first and a slice was recomputed on the CPU
C35_Witness ==
    /\ lib.pe.pc = "returned"
    /\ Len(lib.pe.batches) = 3
    /\ lib.pe.texts = <<"a", "b", "a">>
    /\ lib.pe.completed[1] = 3
    /\ \E k \in 1 .. 2 : lib.pe.completed[k] = 2

\* ---------------------------------------------------------------------------
\* NU_gpu_phase_lock.py: GPUExclusiveLock

\* lines 29-34: the import of fcntl succeeds or not
gpu_phase_lock_import(available) ==
    /\ ~lib.pl.imported
    /\ lib' = [lib EXCEPT !.pl.imported = TRUE, !.pl.FCNTL_AVAILABLE = available]
    /\ UNCHANGED <<Service, an>>

\* a waiting caller that never gives up
GPUExclusiveLock_timed_out_never(elapsed, timeout_sec) == FALSE

\* acquire, line 99: time.time() - start > self.timeout_sec
GPUExclusiveLock_timed_out(elapsed, timeout_sec) == elapsed > timeout_sec

\* acquire, lines 64-74: without fcntl the lock is disabled and acquire returns
\* True at once; otherwise the lock file is opened and the loop begins
GPUExclusiveLock_acquire(p, timeout_sec) ==
    /\ lib.pl.imported
    /\ lib.pl.th[p].pc = "out"
    /\ lib.pl.calls < MaxLockCalls
    /\ lib' = [lib EXCEPT !.pl.calls = @ + 1,
                          !.pl.th[p] = [pc |-> IF lib.pl.FCNTL_AVAILABLE
                                               THEN "polling" ELSE "acquired",
                                        timeout_sec |-> timeout_sec,
                                        elapsed |-> 0]]
    /\ UNCHANGED <<Service, an>>

\* acquire, lines 76-104, one turn of the loop: flock with LOCK_EX | LOCK_NB
\* succeeds if nobody holds the file, and acquire returns True; blocked, the
\* caller raises TimeoutError if its time is over, or sleeps one poll interval
\* (the time waited is counted up to the first value above timeout_sec; the
\* test of line 99 does not tell larger values apart)
GPUExclusiveLock_poll(p) ==
    /\ lib.pl.th[p].pc = "polling"
    /\ IF lib.pl.owner = None
       THEN lib' = [lib EXCEPT !.pl.owner = p, !.pl.th[p].pc = "acquired"]
       ELSE IF GPUExclusiveLock_timed_out(lib.pl.th[p].elapsed, lib.pl.th[p].timeout_sec)
            THEN lib' = [lib EXCEPT !.pl.th[p].pc = "timeout"]
            ELSE lib' = [lib EXCEPT !.pl.th[p].elapsed =
                                        Min(@ + 1, lib.pl.th[p].timeout_sec + 1)]
    /\ UNCHANGED <<Service, an>>

\* release, lines 106-129: flock LOCK_UN and close; nothing to do without fcntl
GPUExclusiveLock_release(p) ==
    /\ lib.pl.th[p].pc = "acquired"
    /\ lib' = [lib EXCEPT !.pl.owner = IF @ = p THEN None ELSE @,
                          !.pl.th[p] = PlOut]
    /\ UNCHANGED <<Service, an>>

\* __enter__, lines 131-133: the TimeoutError leaves the with statement before
\* its block; __exit__ is not called
GPUExclusiveLock_raised(p) ==
    /\ lib.pl.th[p].pc = "timeout"
    /\ lib' = [lib EXCEPT !.pl.th[p] = PlOut]
    /\ UNCHANGED <<Service, an>>

NextPhaseLock ==
    \/ \E available \in BOOLEAN : gpu_phase_lock_import(available)
    \/ \E p \in LockCallers, timeout_sec \in 0 .. MaxTimeout :
          GPUExclusiveLock_acquire(p, timeout_sec)
    \/ \E p \in LockCallers : GPUExclusiveLock_poll(p)
    \/ \E p \in LockCallers : GPUExclusiveLock_release(p)
    \/ \E p \in LockCallers : GPUExclusiveLock_raised(p)

\* a caller inside acquire runs its loop: every turn is taken in the end; a
\* holder is not obliged to release
SpecPhaseLock ==
    /\ InitAnalyzer
    /\ [][NextPhaseLock]_vars
    /\ \A p \in LockCallers : WF_vars(GPUExclusiveLock_poll(p))

\* acquire of p has returned True and p owns the lock file
OwnsLock(p) == lib.pl.th[p].pc = "acquired" /\ lib.pl.owner = p

\* a caller inside acquire gets out of it: with the lock or with TimeoutError,
\* and then not before its timeout_sec has elapsed and without the lock
AcquireEnds ==
    /\ \A p \in LockCallers :
          (lib.pl.th[p].pc = "polling") ~> (lib.pl.th[p].pc \in {"acquired", "timeout"})
    /\ [](\A p \in LockCallers :
             lib.pl.th[p].pc = "timeout" =>
                 /\ lib.pl.th[p].elapsed > lib.pl.th[p].timeout_sec
                 /\ lib.pl.owner # p)

StrategyNames == {"default", "legal", "menus"}
RegistryTexts == {"", "text"}

\* what detect_applicability of a strategy does for the sample: it raises (-1)
\* or returns a score (in tenths)
Applicabilities == {-1, 3, 9}

\* what chunk of a strategy does: it raises, returns no chunk, or returns chunks
ChunkBehaviours == {"raises", "empty", "chunks"}

\* register, lines 19-22: self.strategies[strategy.name] = strategy; a name
\* already present keeps its place in the dict
register(name) ==
    /\ ~InSeq(lib.rg.strategies, name)
    /\ lib' = [lib EXCEPT !.rg.strategies = Append(@, name)]
    /\ UNCHANGED <<Service, an>>

\* get, lines 24-26
registry_get(strategies, name) == IF InSeq(strategies, name) THEN name ELSE None

\* auto_detect, lines 53-61: a detect_applicability that raises counts 0.0
scores_of(strategies, applicability) ==
    [i \in DOMAIN strategies |->
        IF applicability[strategies[i]] = -1 THEN 0 ELSE applicability[strategies[i]]]

\* the last key with the highest score
max_last(strategies, scores) ==
    strategies[CHOOSE i \in DOMAIN scores :
                  /\ \A j \in DOMAIN scores : j < i => scores[j] <= scores[i]
                  /\ \A j \in DOMAIN scores : j > i => scores[j] < scores[i]]

\* max(scores, key=scores.get), line 73: the first key, in the order of the
\* dict, whose score no other key exceeds
max_first(strategies, scores) ==
    strategies[CHOOSE i \in DOMAIN scores :
                  /\ \A j \in DOMAIN scores : j < i => scores[j] < scores[i]
                  /\ \A j \in DOMAIN scores : j > i => scores[j] <= scores[i]]

\* auto_detect, lines 33-77
auto_detect(strategies, text, applicability) ==
    IF text = "" THEN "default"
    ELSE IF strategies = <<>> THEN "default"
    ELSE max_first(strategies, scores_of(strategies, applicability))

\* strategy.chunk: the outcome of one strategy on the text
strategy_chunk(name, text, behaviour) ==
    [raised |-> behaviour[name] = "raises",
     by |-> name,
     chunks |-> IF behaviour[name] = "chunks" /\ text # "" THEN 1 ELSE 0]

\* chunk_text, lines 79-133
chunk_text(strategies, text, name, applicability, behaviour) ==
    LET strategy_name == IF name = None
                         THEN auto_detect(strategies, text, applicability)
                         ELSE name
        found == registry_get(strategies, strategy_name)
        strategy == IF found # None THEN found ELSE registry_get(strategies, "default")
        first == strategy_chunk(strategy, text, behaviour)
        default_strategy == registry_get(strategies, "default")
    IN IF strategy = None
       THEN [selected |-> strategy_name, raised |-> TRUE, by |-> None, chunks |-> 0]
       ELSE IF ~first.raised
            THEN [selected |-> strategy_name] @@ first
            ELSE IF default_strategy # None /\ strategy_name # "default"
                 THEN [selected |-> strategy_name]
                          @@ strategy_chunk(default_strategy, text, behaviour)
                 ELSE [selected |-> strategy_name] @@ first

\* a caller chunks a text: with a strategy name or with automatic selection
chunk_text_call(text, name, applicability, behaviour) ==
    /\ ~lib.rg.call.made
    /\ lib' = [lib EXCEPT !.rg.call =
                  [made |-> TRUE, text |-> text, strategy_name |-> name,
                   strategies |-> lib.rg.strategies,
                   scores |-> scores_of(lib.rg.strategies, applicability),
                   behaviour |-> behaviour]
                  @@ chunk_text(lib.rg.strategies, text, name, applicability, behaviour)]
    /\ UNCHANGED <<Service, an>>

\* the caller has its chunks or its exception
chunk_text_return ==
    /\ lib.rg.call.made
    /\ lib' = [lib EXCEPT !.rg.call = RgNoCall]
    /\ UNCHANGED <<Service, an>>

NextRegistry ==
    \/ \E name \in StrategyNames : register(name)
    \/ chunk_text_return
    \/ \E text \in RegistryTexts, name \in StrategyNames \cup {None},
          applicability \in [StrategyNames -> Applicabilities],
          behaviour \in [StrategyNames -> ChunkBehaviours] :
          chunk_text_call(text, name, applicability, behaviour)

SpecRegistry == InitAnalyzer /\ [][NextRegistry]_vars

\* the strategy that the last call resolved to is registered, is not the
\* default, and failed: it raised, or (with zero_counts) it returned no chunk for
\* a text that is not empty
SelectedFailed(zero_counts) ==
    LET c == lib.rg.call
    IN /\ c.made
       /\ InSeq(c.strategies, c.selected)
       /\ c.selected # "default"
       /\ InSeq(c.strategies, "default")
       /\ \/ c.behaviour[c.selected] = "raises"
          \/ zero_counts /\ c.text # "" /\ c.behaviour[c.selected] = "empty"

\* the last call gave what the default strategy gives: its chunks or its failure
DefaultAnswer ==
    LET c == lib.rg.call
    IN /\ c.by = "default"
       /\ c.raised = (c.behaviour["default"] = "raises")
       /\ c.chunks = strategy_chunk("default", c.text, c.behaviour).chunks

\* C37: when the selected strategy raises or returns zero chunks for non-empty
\* text, chunk_text answers with the default strategy: its chunks, or its
\* failure (this is what the specification says; the code does not do it for
\* zero chunks)
C37_FallbackToDefault == SelectedFailed(TRUE) => DefaultAnswer

\* the half of C37 about a strategy that raises
C37_FallbackWhenRaising == SelectedFailed(FALSE) => DefaultAnswer

\* the last call selected automatically, and its selection is the registered
\* strategy with the highest score, the first registered one among equals
PicksFirstHighest ==
    LET c == lib.rg.call
    IN \E i \in DOMAIN c.strategies :
          /\ c.selected = c.strategies[i]
          /\ \A j \in DOMAIN c.strategies : c.scores[j] <= c.scores[i]
          /\ \A j \in DOMAIN c.strategies : j < i => c.scores[j] < c.scores[i]

\* the call without a strategy name failed with ValueError, no strategy ran
ConfigurationError == lib.rg.call.raised /\ lib.rg.call.by = None

AutomaticCall == lib.rg.call.made /\ lib.rg.call.strategy_name = None

\* C38 as amended: for a text that is not empty, automatic selection picks the
\* registered strategy with the highest applicability score (a detector that
\* raises counts 0), the first registered one among equals; with no strategy
\* registered the call fails with a configuration error
C38_AutoDetectNonEmptyText ==
    /\ (AutomaticCall /\ lib.rg.call.text # "" /\ lib.rg.call.strategies # <<>>)
           => PicksFirstHighest
    /\ (AutomaticCall /\ lib.rg.call.strategies = <<>>) => ConfigurationError

\* C38 as stated: the same for every text
C38_AutoDetect ==
    /\ (AutomaticCall /\ lib.rg.call.strategies # <<>>) => PicksFirstHighest
    /\ (AutomaticCall /\ lib.rg.call.strategies = <<>>) => ConfigurationError

\* three strategies are registered, the first and the last share the highest
\* score, and automatic selection for a text has run
C38_Witness ==
    /\ AutomaticCall
    /\ lib.rg.call.text # ""
    /\ Len(lib.rg.call.strategies) = 3
    /\ lib.rg.call.scores[1] = lib.rg.call.scores[3]
    /\ lib.rg.call.scores[2] < lib.rg.call.scores[1]
    /\ lib.rg.call.selected = lib.rg.call.strategies[1]

\* ---------------------------------------------------------------------------
\* status_reporter.py

\* what the webhook does with a POST
WebhookOutcomes == {"200", "500", "ConnectError", "TimeoutException", "Exception"}

\* lines 53-63: the configuration is read from the environment at import
status_reporter_import(enabled, fire_and_forget) ==
    /\ ~lib.sr.imported
    /\ lib' = [lib EXCEPT !.sr.imported = TRUE,
                          !.sr.WEBHOOK_ENABLED = enabled,
                          !.sr.WEBHOOK_FIRE_AND_FORGET = fire_and_forget]
    /\ UNCHANGED <<Service, an>>

\* send_status_async, lines 79-137: True for status 200, False for any other
\* status and for every exception of the POST, all of which are caught
client_post(outcome) ==
    [raised |-> outcome \in {"ConnectError", "TimeoutException", "Exception"},
     status_code |-> outcome]

send_status_async(outcome) ==
    LET resp == client_post(outcome)
    IN IF resp.raised
       THEN [raised |-> FALSE, value |-> FALSE]
       ELSE [raised |-> FALSE, value |-> resp.status_code = "200"]

\* a sender that waits for the delivery in every mode
waits_for_delivery_always(running_loop, fire_and_forget) == TRUE

\* send_status_sync, lines 152-171: with a running event loop the delivery
\* becomes a task, without one and in fire-and-forget mode a daemon thread;
\* only the blocking fallback runs the delivery before it returns
waits_for_delivery(running_loop, fire_and_forget) ==
    ~running_loop /\ ~fire_and_forget

\* report_status, lines 174-222, and send_status_sync, lines 140-166: the update
\* is logged and cached; disabled, True is returned; a task or a thread gets the
\* delivery and True is returned at once; otherwise the caller runs the delivery
report_status(c, running_loop) ==
    /\ lib.sr.imported
    /\ lib.sr.th[c].pc = "out"
    /\ lib.sr.calls < MaxReports
    /\ IF ~lib.sr.WEBHOOK_ENABLED
       THEN lib' = [lib EXCEPT !.sr.calls = @ + 1,
                               !.sr.th[c] = [pc |-> "returned", value |-> TRUE,
                                             raised |-> FALSE, undelivered |-> FALSE]]
       ELSE IF waits_for_delivery(running_loop, lib.sr.WEBHOOK_FIRE_AND_FORGET)
            THEN lib' = [lib EXCEPT !.sr.calls = @ + 1,
                                    !.sr.th[c].pc = "blocking"]
            ELSE lib' = [lib EXCEPT !.sr.calls = @ + 1,
                                    !.sr.pending = @ + 1,
                                    !.sr.th[c] = [pc |-> "returned", value |-> TRUE,
                                                  raised |-> FALSE,
                                                  undelivered |-> TRUE]]
    /\ UNCHANGED <<Service, an>>

\* send_status_sync, lines 167-171: asyncio.run(send_status_async(update)) in
\* the caller; an exception of it is caught and gives False
send_status_sync_blocking(c, outcome) ==
    /\ lib.sr.th[c].pc = "blocking"
    /\ LET r == send_status_async(outcome)
       IN lib' = [lib EXCEPT !.sr.th[c] =
                      [pc |-> "returned",
                       value |-> IF r.raised THEN FALSE ELSE r.value,
                       raised |-> FALSE,
                       undelivered |-> FALSE]]
    /\ UNCHANGED <<Service, an>>

\* the task or the thread (_runner, lines 156-161) runs send_status_async; what
\* it returns or raises stays in the task or the thread
send_status_background(outcome) ==
    /\ lib.sr.pending > 0
    /\ lib' = [lib EXCEPT !.sr.pending = @ - 1,
                          !.sr.last_delivery = outcome]
    /\ UNCHANGED <<Service, an>>

\* the pipeline goes on after report_status
report_status_return(c) ==
    /\ lib.sr.th[c].pc = "returned"
    /\ lib' = [lib EXCEPT !.sr.th[c] = SrOut]
    /\ UNCHANGED <<Service, an>>

NextReporter ==
    \/ \E enabled \in BOOLEAN, fire_and_forget \in BOOLEAN :
          status_reporter_import(enabled, fire_and_forget)
    \/ \E c \in ReportCallers, running_loop \in BOOLEAN : report_status(c, running_loop)
    \/ \E c \in ReportCallers, outcome \in WebhookOutcomes :
          send_status_sync_blocking(c, outcome)
    \/ \E outcome \in WebhookOutcomes : send_status_background(outcome)
    \/ \E c \in ReportCallers : report_status_return(c)

SpecReporter == InitAnalyzer /\ [][NextReporter]_vars

\* C39: report_status never raises to its caller, whatever the webhook does,
\* and in fire-and-forget mode it returns without waiting for the delivery
C39_ReportNeverRaises ==
    \A c \in ReportCallers :
        lib.sr.th[c].pc = "returned" =>
            /\ ~lib.sr.th[c].raised
            /\ (lib.sr.WEBHOOK_ENABLED /\ lib.sr.WEBHOOK_FIRE_AND_FORGET)
                   => lib.sr.th[c].undelivered

\* in fire-and-forget mode a caller has returned with its delivery still
\* pending, after an earlier delivery ended in an exception in its thread
C39_Witness ==
    /\ lib.sr.WEBHOOK_ENABLED /\ lib.sr.WEBHOOK_FIRE_AND_FORGET
    /\ lib.sr.th["c1"].pc = "returned"
    /\ lib.sr.th["c1"].undelivered
    /\ lib.sr.pending > 0
    /\ lib.sr.last_delivery = "Exception"

\* ---------------------------------------------------------------------------
\* worker.py: the signals

\* signal_handler, lines 34-38, installed for SIGINT and SIGTERM by main,
\* lines 60-61: it logs and sets shutdown_requested; the default handler that
\* would raise KeyboardInterrupt is replaced, and run_worker (job_queue.py,
\* lines 272-308) does not read the flag
signal_handler(w) ==
    /\ w \in env.workers
    /\ ~lib.sg.shutdown_requested[w]
    /\ lib' = [lib EXCEPT !.sg.shutdown_requested[w] = TRUE]
    /\ UNCHANGED <<Service, an>>

NextSignal ==
    \/ NextUpsert
    \/ NextRebuild
    \/ NextWorker
    \/ \E w \in Workers : signal_handler(w)

SpecSignal == InitWorkers /\ [][NextSignal]_vars

\* C40: after its process has received SIGTERM or SIGINT a worker takes no new
\* job from the queue (this is what the specification says; the code does not
\* do it)
C40_NoClaimAfterSignal ==
    [][\A w \in Workers :
          lib.sg.shutdown_requested[w] =>
              ~(wk[w].pc = "poll" /\ wk'[w].pc = "claim")]_vars

=============================================================================
